---- MODULE Spec2Model ----
(***************************************************************************)
(* Model of the Hevy MCP server's analytics core: the paginated fetch      *)
(* layer (hevyService.fetchAll*, hevyApi.fetchFromHevy, validatePagination)*)
(* the tool handlers of tools.ts and the personal-record computations.     *)
(***************************************************************************)
EXTENDS Integers, Sequences, FiniteSets, TLC

VARIABLES
    resource,          \* which fetchAll function runs: its endpoint
    srvPageCount,      \* upstream: page_count reported by every response
    srvPages,          \* upstream: items held on each page
    pc,                \* position of the fetchAll call
    httpLog,           \* HTTP GET requests issued, in issue order
    httpState,         \* per request: pending, or the response received
    completed,         \* request ids in the order their responses arrived
    firstPageResponse, \* fetchAll's local: the response to page 1
    pagePromises,      \* fetchAll's local: request ids of pages 2..N, in array order
    result,            \* outcome of the fetchAll call
    lastCall,          \* the latest direct hevyApi call and what it did
    workouts,          \* the workouts handed to the analysis, as fetched
    recPc,             \* position of processExerciseProgress
    progress,          \* analyzeProgressForExercise's sessions
    recordsByReps,     \* calculateRecordsByReps' Map, in insertion order
    personalRecords,   \* calculateRecordsByReps' returned array
    curDate,           \* calculateRecordsByReps: date of the session being read
    seen,              \* the non-warm-up sets calculateRecordsByReps has read
    lastSet,           \* the set calculateRecordsByReps read last
    toolRun,           \* the latest tool call: its input and its response
    server,            \* main(): the cache warm-up, the transport, the calls served
    calcRun            \* the latest call of an analytics function: input and output

fetchVars == <<resource, srvPageCount, srvPages, pc, httpLog, httpState,
               completed, firstPageResponse, pagePromises, result>>

recVars == <<workouts, recPc, progress, recordsByReps, personalRecords,
             curDate, seen, lastSet>>

toolVars == <<toolRun, server>>

calcVars == <<calcRun>>

vars == <<resource, srvPageCount, srvPages, pc, httpLog, httpState,
          completed, firstPageResponse, pagePromises, result, lastCall,
          workouts, recPc, progress, recordsByReps, personalRecords,
          curDate, seen, lastSet, toolRun, server, calcRun>>

----------------------------------------------------------------------------
(* Bounds of the model *)

MaxPages == 3          \* largest page_count the upstream reports
MaxItemsPerPage == 2   \* most items the upstream puts on one page
MaxItemsTotal == 3     \* most items the upstream holds over all pages
MaxCalls == 2          \* direct hevyApi calls in one behaviour
MaxWorkouts == 2       \* workouts handed to the analysis
MaxEntries == 2        \* exercise entries in one workout
MaxSetsTotal == 2      \* sets over all the workouts
MaxToolWorkouts == 2   \* workouts the upstream holds when a tool is called
MaxReps == 38          \* largest rep count handed to the 1RM functions
MaxServed == 2         \* tool calls served after startup

(* Program constants *)

MAX_PAGE_SIZE == 10
DefaultPage == 1
DefaultPageSize == 10

Items == {"a", "b"}
Resources == {"workouts", "exercise_templates", "routines"}

----------------------------------------------------------------------------
(* JavaScript values that reach the pagination parameters *)

Absent == [t |-> "absent", n |-> 0, s |-> ""]
Undefined == [t |-> "undefined", n |-> 0, s |-> ""]
NaNv == [t |-> "nan", n |-> 0, s |-> ""]
Num(n) == [t |-> "number", n |-> n, s |-> ""]
Str(s) == [t |-> "string", n |-> 0, s |-> s]

Numerals == <<"0", "1", "2", "3", "4", "5", "6", "7", "8", "9", "10", "11", "12">>

\* String(value) for the numbers the model uses
NumToStr(n) == IF n < 0 THEN "-" \o Numerals[(-n) + 1] ELSE Numerals[n + 1]

IsNumeral(s) == \E i \in 1..Len(Numerals) : Numerals[i] = s \/ ("-" \o Numerals[i]) = s

StrToNum(s) ==
    IF \E i \in 1..Len(Numerals) : Numerals[i] = s
    THEN (CHOOSE i \in 1..Len(Numerals) : Numerals[i] = s) - 1
    ELSE 0 - ((CHOOSE i \in 1..Len(Numerals) : ("-" \o Numerals[i]) = s) - 1)

\* Number(value): a number, NaN for text that is no numeral, 0 for ""
ToNumber(v) ==
    CASE v.t = "number" -> v
      [] v.t = "nan" -> NaNv
      [] v.t = "string" -> IF v.s = "" THEN Num(0)
                           ELSE IF IsNumeral(v.s) THEN Num(StrToNum(v.s))
                           ELSE NaNv
      [] OTHER -> NaNv

\* String(value) as api.get applies it to every query parameter
JsString(v) ==
    CASE v.t = "number" -> Str(NumToStr(v.n))
      [] v.t = "nan" -> Str("NaN")
      [] v.t = "string" -> v
      [] OTHER -> Str("undefined")

IsDefined(v) == v.t \notin {"absent", "undefined"}

----------------------------------------------------------------------------
(* utils/validation.ts and services/hevyApi.ts, services/api.ts *)

\* A validation that forgets the upper limit of pageSize
validatePagination_NoUpperLimit(params) ==
    LET page == ToNumber(params.page)
        pageSize == ToNumber(params.pageSize)
    IN  IF IsDefined(params.page) /\ (page.t = "nan" \/ page.n < 1)
        THEN [threw |-> TRUE, error |-> "Page must be a number greater than 0",
              params |-> params]
        ELSE IF IsDefined(params.pageSize) /\ (pageSize.t = "nan" \/ pageSize.n < 1)
        THEN [threw |-> TRUE, error |-> "PageSize must be a number between 1 and 10",
              params |-> params]
        ELSE [threw |-> FALSE, error |-> "",
              params |-> [page |-> IF IsDefined(params.page) THEN page ELSE params.page,
                          pageSize |-> IF IsDefined(params.pageSize) THEN pageSize
                                       ELSE params.pageSize]]

\* validatePagination: throws, or returns the parameters converted to numbers
validatePagination(params) ==
    LET page == ToNumber(params.page)
        pageSize == ToNumber(params.pageSize)
    IN  IF IsDefined(params.page) /\ (page.t = "nan" \/ page.n < 1)
        THEN [threw |-> TRUE, error |-> "Page must be a number greater than 0",
              params |-> params]
        ELSE IF IsDefined(params.pageSize)
                /\ (pageSize.t = "nan" \/ pageSize.n < 1 \/ pageSize.n > 10)
        THEN [threw |-> TRUE, error |-> "PageSize must be a number between 1 and 10",
              params |-> params]
        ELSE [threw |-> FALSE, error |-> "",
              params |-> [page |-> IF IsDefined(params.page) THEN page ELSE params.page,
                          pageSize |-> IF IsDefined(params.pageSize) THEN pageSize
                                       ELSE params.pageSize]]

\* { page: 1, pageSize: 10, ...validatedParams }: an own property, even an
\* undefined one, replaces the default; a missing one leaves it
SpreadDefaults(validated) ==
    [page |-> IF validated.page.t = "absent" THEN Num(DefaultPage) ELSE validated.page,
     pageSize |-> IF validated.pageSize.t = "absent" THEN Num(DefaultPageSize)
                  ELSE validated.pageSize]

\* api.get: undefined values are left out, the others are sent as String(value)
FilteredParams(queryParams) ==
    [page |-> IF queryParams.page.t = "undefined" THEN Absent
              ELSE JsString(queryParams.page),
     pageSize |-> IF queryParams.pageSize.t = "undefined" THEN Absent
                  ELSE JsString(queryParams.pageSize)]

NoRequest == [endpoint |-> "", params |-> [page |-> Absent, pageSize |-> Absent]]

\* fetchFromHevy up to the point where the GET leaves: the request, or the throw
fetchFromHevy(endpoint, params) ==
    LET v == validatePagination(params)
    IN  IF v.threw
        THEN [threw |-> TRUE, error |-> v.error, request |-> NoRequest]
        ELSE [threw |-> FALSE, error |-> "",
              request |-> [endpoint |-> endpoint,
                           params |-> FilteredParams(SpreadDefaults(v.params))]]

Pending == [status |-> "pending", items |-> <<>>, page |-> 0, pageCount |-> 0]
Failed == [status |-> "error", items |-> <<>>, page |-> 0, pageCount |-> 0]

\* No tool call yet
\* main() has not started: nothing is warmed up, no transport is connected
WarmupFetches == {"exercise_templates", "routines", "workouts"}
NoServer == [awaits |-> FALSE, warmup |-> [r \in WarmupFetches |-> "idle"],
             connected |-> FALSE, served |-> 0, servedDuringWarmup |-> FALSE]

NoRun == [tool |-> "", params |-> <<>>, upstream |-> <<>>, response |-> <<>>,
          escaped |-> FALSE]

\* No analytics function called yet
NoCalc == [op |-> "", input |-> <<>>, output |-> <<>>]

\* No set read yet
NoSet == [type |-> "", weightKg |-> 0, reps |-> 0, date |-> 0]

\* The page a request asks the upstream for (the upstream's default is page 1)
RequestedPage(req) ==
    IF req.params.page.t = "absent" THEN 1 ELSE StrToNum(req.params.page.s)

\* The upstream's body for a request, as hevyApi.getWorkouts / getRoutines /
\* getExercises hand it on: { <items>, page, pageCount: data.page_count }
ApiResponse(req) ==
    LET p == RequestedPage(req)
    IN  [status |-> "ok",
         items |-> IF p \in DOMAIN srvPages THEN srvPages[p] ELSE <<>>,
         page |-> p,
         pageCount |-> srvPageCount]

----------------------------------------------------------------------------
(* services/hevyService.ts: fetchAllWorkouts, fetchAllExerciseTemplates,   *)
(* fetchAllRoutines. The three differ only in the endpoint they name.      *)

RECURSIVE Flatten(_)
Flatten(seqs) == IF seqs = <<>> THEN <<>> ELSE Head(seqs) \o Flatten(Tail(seqs))

FirstPageParams_StartsAtTwo == [page |-> Num(2), pageSize |-> Num(MAX_PAGE_SIZE)]

\* hevyApi.get<Resource>({ page: 1, pageSize: MAX_PAGE_SIZE })
FirstPageParams == [page |-> Num(1), pageSize |-> Num(MAX_PAGE_SIZE)]

\* if (totalPages <= 1) ...
IsSinglePage(totalPages) == totalPages <= 1

SinglePageResult_EmptyWhenNoPages(first) ==
    IF first.pageCount = 0 THEN <<>> ELSE first.items

\* ... return firstPageResponse.<items>
SinglePageResult(first) == first.items

PagePromiseParams_OneTooMany(totalPages) ==
    [i \in 1..totalPages |-> [page |-> Num(i + 1), pageSize |-> Num(MAX_PAGE_SIZE)]]

\* Array.from({ length: totalPages - 1 }, (_, i) => ({ page: i + 2, ... }))
PagePromiseParams(totalPages) ==
    [i \in 1..(totalPages - 1) |-> [page |-> Num(i + 1), pageSize |-> Num(MAX_PAGE_SIZE)]]

\* await Promise.all(pagePromises): the responses in the order of the array
PageResponses(promises) == [i \in 1..Len(promises) |-> httpState[promises[i]]]

\* The items of a sequence without the later copies of an item
RECURSIVE Dedup(_)
Dedup(seq) ==
    IF seq = <<>> THEN <<>>
    ELSE LET front == Dedup(SubSeq(seq, 1, Len(seq) - 1))
             last == seq[Len(seq)]
         IN  IF \E i \in 1..Len(front) : front[i] = last THEN front
             ELSE Append(front, last)

\* Pages 2..N joined in the order their responses arrived
CombinePages_CompletionOrder(first, pageResponses) ==
    LET later == SelectSeq(completed, LAMBDA id : id # 1)
    IN  first.items \o Flatten([i \in 1..Len(later) |-> httpState[later[i]].items])

CombinePages_Dedup(first, pageResponses) ==
    Dedup(first.items \o Flatten([i \in 1..Len(pageResponses) |-> pageResponses[i].items]))

\* [...firstPageResponse.items, ...pageResponses.flatMap((r) => r.items)]
CombinePages(first, pageResponses) ==
    first.items \o Flatten([i \in 1..Len(pageResponses) |-> pageResponses[i].items])

\* catch (error) { console.error(...); return []; }
CatchResult(error) == [kind |-> "resolved", value |-> <<>>, caught |-> error]

Resolved(value) == [kind |-> "resolved", value |-> value, caught |-> ""]
NoResult == [kind |-> "none", value |-> <<>>, caught |-> ""]

\* The requests that leave for a sequence of parameter objects
IssuedRequests(endpoint, paramSeq) ==
    [i \in 1..Len(paramSeq) |-> fetchFromHevy(endpoint, paramSeq[i]).request]

\* A start that requests page 2 together with page 1
FetchAllStart_Prefetch(r) ==
    /\ pc = "idle"
    /\ httpLog = <<>>
    /\ resource' = r
    /\ httpLog' = <<fetchFromHevy(r, FirstPageParams).request,
                    fetchFromHevy(r, PagePromiseParams(2)[1]).request>>
    /\ httpState' = <<Pending, Pending>>
    /\ pc' = "awaitFirst"
    /\ UNCHANGED <<srvPageCount, srvPages, completed, firstPageResponse,
                   pagePromises, result, lastCall>>
    /\ UNCHANGED recVars
    /\ UNCHANGED toolVars
    /\ UNCHANGED calcVars

\* fetchAll<Resource>(): the call up to its first await
FetchAllStart(r) ==
    /\ pc = "idle"
    /\ httpLog = <<>>
    /\ resource' = r
    /\ LET call == fetchFromHevy(r, FirstPageParams)
       IN  IF call.threw
           THEN /\ result' = CatchResult(call.error)
                /\ pc' = "done"
                /\ UNCHANGED <<httpLog, httpState>>
           ELSE /\ httpLog' = Append(httpLog, call.request)
                /\ httpState' = Append(httpState, Pending)
                /\ pc' = "awaitFirst"
                /\ result' = result
    /\ UNCHANGED <<srvPageCount, srvPages, completed, firstPageResponse,
                   pagePromises, lastCall>>
    /\ UNCHANGED recVars
    /\ UNCHANGED toolVars
    /\ UNCHANGED calcVars

\* The upstream answers one request that is in flight, or the request fails
HttpResponse(id, ok) ==
    /\ id \in 1..Len(httpLog)
    /\ httpState[id].status = "pending"
    /\ httpState' = [httpState EXCEPT ![id] = IF ok THEN ApiResponse(httpLog[id]) ELSE Failed]
    /\ completed' = Append(completed, id)
    /\ UNCHANGED <<resource, srvPageCount, srvPages, pc, httpLog, firstPageResponse,
                   pagePromises, result, lastCall>>
    /\ UNCHANGED recVars
    /\ UNCHANGED toolVars
    /\ UNCHANGED calcVars

\* fetchAll<Resource>() resumes after `await hevyApi.get<Resource>(page 1)`
FirstPageContinue ==
    /\ pc = "awaitFirst"
    /\ httpState[1].status # "pending"
    /\ IF httpState[1].status = "error"
       THEN /\ result' = CatchResult("API error")
            /\ pc' = "done"
            /\ UNCHANGED <<httpLog, httpState, firstPageResponse, pagePromises>>
       ELSE LET first == httpState[1]
                totalPages == first.pageCount
            IN  /\ firstPageResponse' = first
                /\ IF IsSinglePage(totalPages)
                   THEN /\ result' = Resolved(SinglePageResult(first))
                        /\ pc' = "done"
                        /\ UNCHANGED <<httpLog, httpState, pagePromises>>
                   ELSE LET reqs == IssuedRequests(resource, PagePromiseParams(totalPages))
                        IN  /\ httpLog' = httpLog \o reqs
                            /\ httpState' = httpState \o [i \in 1..Len(reqs) |-> Pending]
                            /\ pagePromises' = [i \in 1..Len(reqs) |-> Len(httpLog) + i]
                            /\ pc' = "awaitAll"
                            /\ result' = result
    /\ UNCHANGED <<resource, srvPageCount, srvPages, completed, lastCall>>
    /\ UNCHANGED recVars
    /\ UNCHANGED toolVars
    /\ UNCHANGED calcVars

\* fetchAll<Resource>() resumes after `await Promise.all(pagePromises)`:
\* rejected as soon as one promise is, fulfilled once all are
AllPagesContinue ==
    /\ pc = "awaitAll"
    /\ LET responses == PageResponses(pagePromises)
           rejected == \E i \in 1..Len(responses) : responses[i].status = "error"
           fulfilled == \A i \in 1..Len(responses) : responses[i].status = "ok"
       IN  /\ rejected \/ fulfilled
           /\ result' = IF rejected THEN CatchResult("API error")
                        ELSE Resolved(CombinePages(firstPageResponse, responses))
    /\ pc' = "done"
    /\ UNCHANGED <<resource, srvPageCount, srvPages, httpLog, httpState, completed,
                   firstPageResponse, pagePromises, lastCall>>
    /\ UNCHANGED recVars
    /\ UNCHANGED toolVars
    /\ UNCHANGED calcVars

----------------------------------------------------------------------------
(* The paged fetch against an upstream of up to MaxPages pages *)

PageContents == UNION {[1..n -> Items] : n \in 0..MaxItemsPerPage}

NoCall == [n |-> 0, endpoint |-> "", params |-> [page |-> Absent, pageSize |-> Absent],
           threw |-> FALSE, error |-> "", logBefore |-> 0]

Init ==
    /\ resource = ""
    /\ srvPageCount \in 0..MaxPages
    /\ srvPages \in [1..MaxPages -> PageContents]
    /\ \A p \in 1..MaxPages : (p > 1 /\ p > srvPageCount) => srvPages[p] = <<>>
    /\ Len(Flatten(srvPages)) <= MaxItemsTotal
    /\ pc = "idle"
    /\ httpLog = <<>>
    /\ httpState = <<>>
    /\ completed = <<>>
    /\ firstPageResponse = Pending
    /\ pagePromises = <<>>
    /\ result = NoResult
    /\ lastCall = NoCall
    /\ workouts = <<>>
    /\ recPc = "off"
    /\ progress = <<>>
    /\ recordsByReps = <<>>
    /\ personalRecords = <<>>
    /\ curDate = 0
    /\ seen = {}
    /\ lastSet = NoSet
    /\ toolRun = NoRun
    /\ server = NoServer
    /\ calcRun = NoCalc

Next ==
    \/ \E r \in Resources : FetchAllStart(r)
    \/ \E id \in 1..(MaxPages + 1), ok \in BOOLEAN : HttpResponse(id, ok)
    \/ FirstPageContinue
    \/ AllPagesContinue

Spec == Init /\ [][Next]_vars

----------------------------------------------------------------------------
(* Properties of the paged fetch, checked under Spec *)

AllAnswered == \A id \in 1..Len(httpLog) : httpState[id].status = "ok"
SomeFailed == \E id \in 1..Len(httpLog) : httpState[id].status = "error"

\* What the upstream holds on pages 1..n, in page order
PagesInOrder(n) == Flatten([p \in 1..n |-> srvPages[p]])

Count(seq, x) == Cardinality({i \in 1..Len(seq) : seq[i] = x})

\* C1: with N > 1 pages and every request answered, fetchAll returns the
\* items of page 1 followed by those of pages 2..N in ascending page order,
\* whatever the order in which the responses to pages 2..N arrived.
C1_AscendingPageOrder ==
    (pc = "done" /\ AllAnswered /\ firstPageResponse.pageCount > 1)
        => /\ result.kind = "resolved"
           /\ result.value = PagesInOrder(firstPageResponse.pageCount)

\* C1 witness: three pages, page 3 answered before page 2, and the two
\* pages hold different items.
C1_Witness ==
    /\ pc = "done"
    /\ AllAnswered
    /\ firstPageResponse.pageCount = 3
    /\ completed = <<1, 3, 2>>
    /\ srvPages[2] # <<>>
    /\ srvPages[3] # <<>>
    /\ srvPages[2] # srvPages[3]
    /\ result.value = PagesInOrder(3)

\* C2: if any page request fails, the fetchAll call fails (its promise is
\* rejected with the error); it never completes with a collection.
C2_FailurePropagates ==
    (pc = "done" /\ SomeFailed) => result.kind = "rejected"

\* C3: the first request of a fetchAll call is for page 1 with page size
\* 10, and a request for a page >= 2 exists only once the response to
\* page 1 has arrived and been read into firstPageResponse.
C3_FirstPageFirst ==
    /\ Len(httpLog) >= 1 =>
          httpLog[1] = [endpoint |-> resource,
                        params |-> [page |-> Str("1"), pageSize |-> Str("10")]]
    /\ \A i \in 1..Len(httpLog) :
          RequestedPage(httpLog[i]) >= 2 =>
              /\ i > 1
              /\ httpState[1].status = "ok"
              /\ firstPageResponse = httpState[1]

\* C3 witness: requests for pages 2 and 3 are in flight after page 1 was read.
C3_Witness ==
    /\ pc = "awaitAll"
    /\ Len(httpLog) = 3
    /\ httpState[1].status = "ok"
    /\ httpState[2].status = "pending"
    /\ httpState[3].status = "pending"

\* C4: once page 1 reported pageCount = N > 1, the call has issued exactly
\* N - 1 further requests: one for each page of 2..N, each with page size 10.
C4_ExactlyRemainingPages ==
    (pc \in {"awaitAll", "done"} /\ firstPageResponse.status = "ok"
       /\ firstPageResponse.pageCount > 1)
        => LET N == firstPageResponse.pageCount
           IN  /\ Len(httpLog) = N
               /\ \A p \in 2..N :
                     Cardinality({i \in 2..Len(httpLog) :
                                     /\ RequestedPage(httpLog[i]) = p
                                     /\ httpLog[i].params.pageSize = Str("10")
                                     /\ httpLog[i].endpoint = resource}) = 1

\* C4 witness: page 1 reported three pages and pages 2 and 3 were requested.
C4_Witness ==
    /\ pc = "awaitAll"
    /\ firstPageResponse.pageCount = 3
    /\ Len(httpLog) = 3
    /\ RequestedPage(httpLog[2]) = 2
    /\ RequestedPage(httpLog[3]) = 3

\* C5: a successful fetchAll returns as many items as the fetched pages
\* hold together, and every item as often as it occurs on those pages.
C5_NothingDroppedOrMerged ==
    (pc = "done" /\ AllAnswered) =>
        LET fetched == Flatten([id \in 1..Len(httpLog) |-> httpState[id].items])
        IN  /\ Len(result.value) = Len(fetched)
            /\ \A x \in Items : Count(result.value, x) = Count(fetched, x)

\* C5 witness: an item held on page 1 and on page 2 is returned twice.
C5_Witness ==
    /\ pc = "done"
    /\ AllAnswered
    /\ firstPageResponse.pageCount = 2
    /\ \E x \in Items :
          /\ Count(srvPages[1], x) = 1
          /\ Count(srvPages[2], x) = 1
          /\ Count(result.value, x) = 2

\* C6: if page 1 reports pageCount <= 1, fetchAll returns exactly the items
\* of page 1 and issues no further request.
C6_SinglePage ==
    (pc = "done" /\ httpState[1].status = "ok" /\ httpState[1].pageCount <= 1)
        => /\ result = Resolved(httpState[1].items)
           /\ Len(httpLog) = 1

\* C6 witness: page 1 reports pageCount = 0 and still carries items.
C6_Witness ==
    /\ pc = "done"
    /\ httpState[1].status = "ok"
    /\ httpState[1].pageCount = 0
    /\ httpState[1].items # <<>>
    /\ result.value = httpState[1].items

----------------------------------------------------------------------------
(* Direct calls of hevyApi.getWorkouts / getRoutines / getExercises with   *)
(* arbitrary pagination parameters                                         *)

PageInputs == {Absent, Undefined, Num(0), Num(1), Str("abc"), Str("2")}
PageSizeInputs == {Absent, Num(0), Num(10), Num(11), Str("abc"), Str("7")}

\* hevyApi.getWorkouts and hevyApi.getRoutines; hevyApi.getExercises differs
\* from getWorkouts in the endpoint it names only
ApiEndpoints == {"workouts", "routines"}

\* hevyApi.get<Resource>(params): fetchFromHevy validates, then the GET leaves
ApiCall(endpoint, page, pageSize) ==
    /\ lastCall.n < MaxCalls
    /\ LET params == [page |-> page, pageSize |-> pageSize]
           call == fetchFromHevy(endpoint, params)
       IN  /\ lastCall' = [n |-> lastCall.n + 1, endpoint |-> endpoint, params |-> params,
                           threw |-> call.threw, error |-> call.error,
                           logBefore |-> Len(httpLog)]
           /\ IF call.threw
              THEN UNCHANGED <<httpLog, httpState>>
              ELSE /\ httpLog' = Append(httpLog, call.request)
                   /\ httpState' = Append(httpState, Pending)
    /\ UNCHANGED <<resource, srvPageCount, srvPages, pc, completed, firstPageResponse,
                   pagePromises, result>>
    /\ UNCHANGED recVars
    /\ UNCHANGED toolVars
    /\ UNCHANGED calcVars

InitApi ==
    /\ resource = ""
    /\ srvPageCount = 1
    /\ srvPages = [p \in 1..MaxPages |-> IF p = 1 THEN <<"a">> ELSE <<>>]
    /\ pc = "idle"
    /\ httpLog = <<>>
    /\ httpState = <<>>
    /\ completed = <<>>
    /\ firstPageResponse = Pending
    /\ pagePromises = <<>>
    /\ result = NoResult
    /\ lastCall = NoCall
    /\ workouts = <<>>
    /\ recPc = "off"
    /\ progress = <<>>
    /\ recordsByReps = <<>>
    /\ personalRecords = <<>>
    /\ curDate = 0
    /\ seen = {}
    /\ lastSet = NoSet
    /\ toolRun = NoRun
    /\ server = NoServer
    /\ calcRun = NoCalc

NextApi ==
    \/ \E e \in ApiEndpoints, page \in PageInputs, pageSize \in PageSizeInputs :
          ApiCall(e, page, pageSize)
    \/ \E id \in 1..MaxCalls, ok \in BOOLEAN : HttpResponse(id, ok)

SpecApi == InitApi /\ [][NextApi]_vars

\* A supplied page that is no number >= 1, or a supplied pageSize that is
\* no number in 1..10
OutOfRange(params) ==
    \/ /\ IsDefined(params.page)
       /\ ToNumber(params.page).t = "nan" \/ ToNumber(params.page).n < 1
    \/ /\ IsDefined(params.pageSize)
       /\ \/ ToNumber(params.pageSize).t = "nan"
          \/ ToNumber(params.pageSize).n < 1
          \/ ToNumber(params.pageSize).n > 10

\* The text of a query parameter is a numeral of at least lo
NumeralAtLeast(v, lo) ==
    /\ v.t = "string"
    /\ IsNumeral(v.s)
    /\ StrToNum(v.s) >= lo

\* The text of a query parameter is a numeral within lo..hi
NumeralWithin(v, lo, hi) ==
    /\ NumeralAtLeast(v, lo)
    /\ StrToNum(v.s) <= hi

\* C8: a call with an out-of-range page or pageSize is rejected with an
\* error and adds no HTTP request; every HTTP request that leaves carries a
\* page >= 1 and a pageSize in 1..10 (or leaves the parameter to the
\* upstream's default).
C8_RejectedBeforeRequest ==
    /\ (lastCall.n > 0 /\ OutOfRange(lastCall.params))
          => /\ lastCall.threw
             /\ lastCall.error # ""
             /\ Len(httpLog) = lastCall.logBefore
    /\ \A i \in 1..Len(httpLog) :
          /\ httpLog[i].params.page.t = "absent"
             \/ NumeralAtLeast(httpLog[i].params.page, 1)
          /\ httpLog[i].params.pageSize.t = "absent"
             \/ NumeralWithin(httpLog[i].params.pageSize, 1, 10)

\* C8 witness: a call with pageSize 11 after a valid call: it threw and the
\* log still holds the one earlier request.
C8_Witness ==
    /\ lastCall.n = 2
    /\ lastCall.params.pageSize = Num(11)
    /\ lastCall.params.page = Num(1)
    /\ lastCall.threw
    /\ Len(httpLog) = 1

----------------------------------------------------------------------------
(* services/hevyService.ts: analyzeProgressForExercise,                    *)
(* calculateRecordsByReps, processExerciseProgress                         *)

ExerciseIds == {"X", "Y"}
Dates == {1, 2}              \* start_time, as a day number
SetTypes == {"normal", "warmup"}
Weights == {1, 2}            \* weight_kg
RepCounts == {1, 2}          \* reps

TargetExercise == "X"

\* Array.prototype.sort with a comparator on a numeric key: stable, ascending
\* in keys[i], the key of seq[i]
SortByKeys(seq, keys) ==
    LET rank(i) == Cardinality({k \in 1..Len(seq) : keys[k] < keys[i]})
                   + Cardinality({k \in 1..(i - 1) : keys[k] = keys[i]}) + 1
    IN  [r \in 1..Len(seq) |-> seq[CHOOSE i \in 1..Len(seq) : rank(i) = r]]

\* exercises.find((ex) => ex.exercise_template_id === exerciseId)
FindExercise(exercises, exerciseId) ==
    exercises[CHOOSE i \in 1..Len(exercises) :
                 /\ exercises[i].exercise_template_id = exerciseId
                 /\ \A k \in 1..(i - 1) : exercises[k].exercise_template_id # exerciseId]

ContainsExercise(workout, exerciseId) ==
    \E k \in 1..Len(workout.exercises) :
        workout.exercises[k].exercise_template_id = exerciseId


\* workouts.filter(some entry is the exercise).map(first such entry's sets),
\* then sort((a, b) => new Date(b.date) - new Date(a.date)): most recent first
analyzeProgressForExercise(exerciseId, ws) ==
    LET containing == SelectSeq(ws, LAMBDA w : ContainsExercise(w, exerciseId))
        session(w) ==
            LET exercise == FindExercise(w.exercises, exerciseId)
            IN  [date |-> w.start_time,
                 sets |-> [k \in 1..Len(exercise.sets) |->
                              [index |-> k, type |-> exercise.sets[k].type,
                               weightKg |-> exercise.sets[k].weight_kg,
                               reps |-> exercise.sets[k].reps]]]
        sessions == [k \in 1..Len(containing) |-> session(containing[k])]
    IN  SortByKeys(sessions, [k \in 1..Len(sessions) |-> 0 - sessions[k].date])

\* Map.has / Map.get / Map.set on a Map kept as its entries in insertion order
MapHas(map, key) == \E k \in 1..Len(map) : map[k].reps = key
MapGet(map, key) == map[CHOOSE k \in 1..Len(map) : map[k].reps = key]
MapSet(map, key, weight, date) ==
    IF MapHas(map, key)
    THEN [k \in 1..Len(map) |->
             IF map[k].reps = key
             THEN [reps |-> key, weight_kg |-> weight, date |-> date]
             ELSE map[k]]
    ELSE Append(map, [reps |-> key, weight_kg |-> weight, date |-> date])

IsRecord_Overwrite(map, repCount, weight) == TRUE


\* !recordsByReps.has(repCount) || weight > recordsByReps.get(repCount).weight_kg
IsRecord(map, repCount, weight) ==
    ~MapHas(map, repCount) \/ weight > MapGet(map, repCount).weight_kg

\* The body of calculateRecordsByReps' inner loop for one set of a session
FoldSet(map, session, set) ==
    IF set.type = "warmup" THEN map
    ELSE IF IsRecord(map, set.reps, set.weightKg)
    THEN MapSet(map, set.reps, set.weightKg, session.date)
    ELSE map

\* The entries in the Map's insertion order, the sort left out
RecordsArray_InsertionOrder(map) == map

\* Array.from(map.entries()).map(...).sort((a, b) => a.reps - b.reps)
RecordsArray(map) == SortByKeys(map, [k \in 1..Len(map) |-> map[k].reps])

\* calculateRecordsByReps' loops over the sets of one session
RECURSIVE FoldSets(_, _, _)
FoldSets(map, session, k) ==
    IF k > Len(session.sets) THEN map
    ELSE FoldSets(FoldSet(map, session, session.sets[k]), session, k + 1)

\* calculateRecordsByReps' loop over the sessions, in the order supplied
RECURSIVE FoldSessions(_, _)
FoldSessions(map, data) ==
    IF data = <<>> THEN map
    ELSE FoldSessions(FoldSets(map, Head(data), 1), Tail(data))

calculateRecordsByReps(progressData) == RecordsArray(FoldSessions(<<>>, progressData))

TotalSets(ws) ==
    Len(Flatten([w \in 1..Len(ws) |->
                    Flatten([e \in 1..Len(ws[w].exercises) |-> ws[w].exercises[e].sets])]))

\* The upstream history grows by a workout
AddWorkout(date) ==
    /\ recPc = "input"
    /\ Len(workouts) < MaxWorkouts
    /\ workouts' = Append(workouts, [start_time |-> date, exercises |-> <<>>])
    /\ UNCHANGED <<recPc, progress, recordsByReps, personalRecords, curDate, seen, lastSet>>
    /\ UNCHANGED fetchVars
    /\ UNCHANGED lastCall
    /\ UNCHANGED toolVars
    /\ UNCHANGED calcVars

\* The latest workout grows by an exercise entry; an entry of another
\* exercise comes first in its workout
AddEntry(exerciseId) ==
    /\ recPc = "input"
    /\ workouts # <<>>
    /\ Len(workouts[Len(workouts)].exercises) < MaxEntries
    /\ exerciseId # TargetExercise => workouts[Len(workouts)].exercises = <<>>
    /\ workouts' = [workouts EXCEPT ![Len(workouts)].exercises =
                       Append(@, [exercise_template_id |-> exerciseId, sets |-> <<>>])]
    /\ UNCHANGED <<recPc, progress, recordsByReps, personalRecords, curDate, seen, lastSet>>
    /\ UNCHANGED fetchVars
    /\ UNCHANGED lastCall
    /\ UNCHANGED toolVars
    /\ UNCHANGED calcVars

\* The latest entry of the target exercise grows by a set
AddSet(type, weight, reps) ==
    /\ recPc = "input"
    /\ workouts # <<>>
    /\ workouts[Len(workouts)].exercises # <<>>
    /\ TotalSets(workouts) < MaxSetsTotal
    /\ LET w == Len(workouts)
           e == Len(workouts[w].exercises)
       IN  /\ workouts[w].exercises[e].exercise_template_id = TargetExercise
           /\ workouts' = [workouts EXCEPT ![w].exercises[e].sets =
                              Append(@, [type |-> type, weight_kg |-> weight, reps |-> reps])]
    /\ UNCHANGED <<recPc, progress, recordsByReps, personalRecords, curDate, seen, lastSet>>
    /\ UNCHANGED fetchVars
    /\ UNCHANGED lastCall
    /\ UNCHANGED toolVars
    /\ UNCHANGED calcVars

\* processExerciseProgress(exercise, workouts, limit): the sessions of the
\* exercise and its personal records
ProcessExerciseProgress ==
    /\ recPc = "input"
    /\ LET data == analyzeProgressForExercise(TargetExercise, workouts)
       IN  /\ progress' = data
           /\ personalRecords' = calculateRecordsByReps(data)
    /\ recPc' = "done"
    /\ UNCHANGED <<workouts, recordsByReps, curDate, seen, lastSet>>
    /\ UNCHANGED fetchVars
    /\ UNCHANGED lastCall
    /\ UNCHANGED toolVars
    /\ UNCHANGED calcVars

InitRecords ==
    /\ resource = ""
    /\ srvPageCount = 0
    /\ srvPages = [p \in 1..MaxPages |-> <<>>]
    /\ pc = "idle"
    /\ httpLog = <<>>
    /\ httpState = <<>>
    /\ completed = <<>>
    /\ firstPageResponse = Pending
    /\ pagePromises = <<>>
    /\ result = NoResult
    /\ lastCall = NoCall
    /\ workouts = <<>>
    /\ recPc = "input"
    /\ progress = <<>>
    /\ recordsByReps = <<>>
    /\ personalRecords = <<>>
    /\ curDate = 0
    /\ seen = {}
    /\ lastSet = NoSet
    /\ toolRun = NoRun
    /\ server = NoServer
    /\ calcRun = NoCalc

NextRecords ==
    \/ \E date \in Dates : AddWorkout(date)
    \/ \E id \in ExerciseIds : AddEntry(id)
    \/ \E type \in SetTypes, weight \in Weights, reps \in RepCounts :
          AddSet(type, weight, reps)
    \/ ProcessExerciseProgress

SpecRecords == InitRecords /\ [][NextRecords]_vars

\* The sessions that hold a non-warm-up set of the given reps and weight
Achieving(data, reps, weight) ==
    {i \in 1..Len(data) :
        \E k \in 1..Len(data[i].sets) :
            /\ data[i].sets[k].type # "warmup"
            /\ data[i].sets[k].reps = reps
            /\ data[i].sets[k].weightKg = weight}

\* C9: when several workouts hold a non-warm-up set with the record weight
\* of a rep count, the record carries the date of the earliest of them.
C9_FirstAchievedWins ==
    recPc = "done" =>
        \A k \in 1..Len(personalRecords) :
            LET rec == personalRecords[k]
            IN  \A i \in Achieving(progress, rec.reps, rec.weight_kg) :
                    rec.date <= progress[i].date

----------------------------------------------------------------------------
(* calculateRecordsByReps read step by step, on sessions supplied in any   *)
(* order                                                                   *)

\* for (const workout of progressData): the next session is entered
FoldNextSession(date) ==
    /\ recPc = "fold"
    /\ curDate' = date
    /\ UNCHANGED <<workouts, recPc, progress, recordsByReps, personalRecords, seen, lastSet>>
    /\ UNCHANGED fetchVars
    /\ UNCHANGED lastCall
    /\ UNCHANGED toolVars
    /\ UNCHANGED calcVars

\* for (const set of workout.sets): one pass of the inner loop
FoldNextSet(type, weight, reps) ==
    /\ recPc = "fold"
    /\ curDate # 0
    /\ LET set == [index |-> 0, type |-> type, weightKg |-> weight, reps |-> reps]
       IN  /\ recordsByReps' = FoldSet(recordsByReps, [date |-> curDate, sets |-> <<set>>], set)
           /\ seen' = IF type = "warmup" THEN seen
                      ELSE seen \cup {[weightKg |-> weight, reps |-> reps, date |-> curDate]}
           /\ lastSet' = [type |-> type, weightKg |-> weight, reps |-> reps, date |-> curDate]
    /\ UNCHANGED <<workouts, recPc, progress, personalRecords, curDate>>
    /\ UNCHANGED fetchVars
    /\ UNCHANGED lastCall
    /\ UNCHANGED toolVars
    /\ UNCHANGED calcVars

\* The loops are over: the Map is returned as an array
FoldReturn ==
    /\ recPc = "fold"
    /\ personalRecords' = RecordsArray(recordsByReps)
    /\ recPc' = "done"
    /\ UNCHANGED <<workouts, progress, recordsByReps, curDate, seen, lastSet>>
    /\ UNCHANGED fetchVars
    /\ UNCHANGED lastCall
    /\ UNCHANGED toolVars
    /\ UNCHANGED calcVars

InitFold ==
    /\ resource = ""
    /\ srvPageCount = 0
    /\ srvPages = [p \in 1..MaxPages |-> <<>>]
    /\ pc = "idle"
    /\ httpLog = <<>>
    /\ httpState = <<>>
    /\ completed = <<>>
    /\ firstPageResponse = Pending
    /\ pagePromises = <<>>
    /\ result = NoResult
    /\ lastCall = NoCall
    /\ workouts = <<>>
    /\ recPc = "fold"
    /\ progress = <<>>
    /\ recordsByReps = <<>>
    /\ personalRecords = <<>>
    /\ curDate = 0
    /\ seen = {}
    /\ lastSet = NoSet
    /\ toolRun = NoRun
    /\ server = NoServer
    /\ calcRun = NoCalc

NextFold ==
    \/ \E date \in Dates : FoldNextSession(date)
    \/ \E type \in SetTypes, weight \in Weights, reps \in RepCounts :
          FoldNextSet(type, weight, reps)
    \/ FoldReturn

SpecFold == InitFold /\ [][NextFold]_vars

\* C10: while sets are folded into the records-by-reps table, a rep count
\* that has a record keeps one, and its weight never decreases.
C10_WeightNeverDecreases ==
    [][\A r \in RepCounts :
          MapHas(recordsByReps, r) =>
              /\ MapHas(recordsByReps', r)
              /\ MapGet(recordsByReps', r).weight_kg >= MapGet(recordsByReps, r).weight_kg]_vars

\* C10 witness: a non-warm-up set lighter than the record of its rep count
\* was read, and the record still holds the heavier weight.
C10_Witness ==
    /\ lastSet.type = "normal"
    /\ lastSet.weightKg = 1
    /\ MapHas(recordsByReps, lastSet.reps)
    /\ MapGet(recordsByReps, lastSet.reps).weight_kg = 2

\* The non-warm-up sets read so far that have the given rep count
SeenAt(reps) == {x \in seen : x.reps = reps}

\* C11: the returned table has exactly one entry per rep count that occurs
\* in a non-warm-up set of the sessions, the entry's weight is the maximum
\* weight over those sets, and the entries are in strictly ascending order
\* of rep count.
C11_OneMaximalEntryPerRepCount ==
    recPc = "done" =>
        /\ \A r \in RepCounts :
              Cardinality({k \in 1..Len(personalRecords) : personalRecords[k].reps = r})
                  = IF SeenAt(r) # {} THEN 1 ELSE 0
        /\ \A k \in 1..Len(personalRecords) :
              /\ personalRecords[k].reps \in RepCounts
              /\ \E x \in SeenAt(personalRecords[k].reps) :
                    x.weightKg = personalRecords[k].weight_kg
              /\ \A x \in SeenAt(personalRecords[k].reps) :
                    x.weightKg <= personalRecords[k].weight_kg
        /\ \A k \in 1..(Len(personalRecords) - 1) :
              personalRecords[k].reps < personalRecords[k + 1].reps

\* C11 witness: the table was returned with two entries, the higher rep
\* count was recorded first, and one rep count was lifted at two weights.
C11_Witness ==
    /\ recPc = "done"
    /\ Len(personalRecords) = 2
    /\ recordsByReps[1].reps = 2
    /\ \E x, y \in seen : x.reps = y.reps /\ x.weightKg < y.weightKg

----------------------------------------------------------------------------
(* tools.ts: the tool handlers, on top of hevyService and responseUtils    *)

MsPerMinute == 60000

\* new Date(t).getTime(): the milliseconds of a day number
getTime(day) == day * 86400000

Min(a, b) == IF a < b THEN a ELSE b

\* Math.round(a / b) for b > 0: the nearest integer, a half rounded up
RoundDiv(a, b) == (2 * a + b) \div (2 * b)

\* array.slice(0, n) for n >= 0
SliceFirst(seq, n) == SubSeq(seq, 1, Min(n, Len(seq)))

\* createErrorResponse(message)
createErrorResponse(message) == [isError |-> TRUE, message |-> message, data |-> <<>>]

\* createSuccessResponse(data): the text is JSON.stringify(data), kept as data
createSuccessResponse(data) == [isError |-> FALSE, message |-> "", data |-> data]

\* Two responses are the same one
SameResponse(a, b) ==
    /\ a.isError = b.isError
    /\ IF a.isError THEN a.message = b.message ELSE a.data = b.data

\* A promise rejected with the error
Rejected(error) == [kind |-> "rejected", value |-> <<>>, caught |-> error]

\* A fetchAll<Resource>() that lets the error of a failed request through
fetchAllOutcome_Rethrow(outcome) ==
    IF outcome.failed THEN Rejected("API error") ELSE Resolved(outcome.items)

\* How a fetchAll<Resource>() call settles: with the upstream's items, or
\* with what its catch block returns when a page request failed
fetchAllOutcome(outcome) ==
    IF outcome.failed THEN CatchResult("API error") ELSE Resolved(outcome.items)

\* What a fetchAll<Resource>() call hands its caller
FetchAllResult(outcome) == fetchAllOutcome(outcome).value

\* How hevyService.getWorkouts settles: its own catch block returns [] when
\* fetchAllWorkouts rejects
getWorkoutsOutcome(outcome) ==
    IF fetchAllOutcome(outcome).kind = "rejected"
    THEN CatchResult(fetchAllOutcome(outcome).caught)
    ELSE Resolved(fetchAllOutcome(outcome).value)

\* calculateWorkoutStats(workout)
calculateWorkoutStats(workout) ==
    LET sets == Flatten([e \in 1..Len(workout.exercises) |-> workout.exercises[e].sets])
        volume[k \in 0..Len(sets)] ==
            IF k = 0 THEN 0
            ELSE volume[k - 1] + IF sets[k].weight_kg # 0 /\ sets[k].reps # 0
                                 THEN sets[k].weight_kg * sets[k].reps ELSE 0
    IN  [durationMinutes |->
             RoundDiv(getTime(workout.end_time) - getTime(workout.start_time), MsPerMinute),
         exerciseCount |-> Len(workout.exercises),
         totalSets |-> Len(sets),
         totalVolume |-> volume[Len(sets)]]

\* Workouts within the range, left in the order they were fetched in
hevyService_getWorkouts_FetchOrder(allWorkouts, startDate, endDate) ==
    SelectSeq(allWorkouts, LAMBDA w :
        /\ startDate = 0 \/ w.start_time >= startDate
        /\ endDate = 0 \/ w.start_time <= endDate)

\* hevyService.getWorkouts(startDate, endDate) on the fetched workouts:
\* those within the inclusive range, most recent first; 0 stands for no date
hevyService_getWorkouts(allWorkouts, startDate, endDate) ==
    LET filtered == SelectSeq(allWorkouts, LAMBDA w :
                        /\ startDate = 0 \/ w.start_time >= startDate
                        /\ endDate = 0 \/ w.start_time <= endDate)
    IN  SortByKeys(filtered, [k \in 1..Len(filtered) |-> 0 - filtered[k].start_time])

\* Progress whose records come from the returned sessions only
processExerciseProgress_RecordsOfReturned(exercise, ws, limit) ==
    LET data == analyzeProgressForExercise(exercise.id, ws)
    IN  [exercise |-> exercise,
         personalRecords |-> calculateRecordsByReps(SliceFirst(data, limit)),
         sessions |-> SliceFirst(data, limit)]

\* Progress that returns every session, whatever the limit
processExerciseProgress_Unlimited(exercise, ws, limit) ==
    LET data == analyzeProgressForExercise(exercise.id, ws)
    IN  [exercise |-> exercise,
         personalRecords |-> calculateRecordsByReps(data),
         sessions |-> data]

\* processExerciseProgress(exercise, workouts, limit)
processExerciseProgress(exercise, ws, limit) ==
    LET data == analyzeProgressForExercise(exercise.id, ws)
    IN  [exercise |-> exercise,
         personalRecords |-> calculateRecordsByReps(data),
         sessions |-> SliceFirst(data, limit)]

\* tools.getWorkouts({ limit, startDate, endDate })
tools_getWorkouts(params, upstream) ==
    LET ws == hevyService_getWorkouts(FetchAllResult(upstream.workouts),
                                      params.startDate, params.endDate)
        shown == SliceFirst(ws, params.limit)
        formatted ==
            [k \in 1..Len(shown) |->
                [id |-> shown[k].id,
                 title |-> shown[k].title,
                 date |-> shown[k].start_time,
                 durationMinutes |-> calculateWorkoutStats(shown[k]).durationMinutes,
                 totalVolume |-> calculateWorkoutStats(shown[k]).totalVolume,
                 exercises |->
                     [e \in 1..Len(shown[k].exercises) |->
                         [id |-> shown[k].exercises[e].exercise_template_id,
                          name |-> shown[k].exercises[e].title,
                          sets |-> [i \in 1..Len(shown[k].exercises[e].sets) |->
                                       [weight |-> shown[k].exercises[e].sets[i].weight_kg,
                                        reps |-> shown[k].exercises[e].sets[i].reps]]]]]]
    IN  createSuccessResponse([workouts |-> formatted,
                               totalWorkouts |-> Len(ws),
                               returnedWorkouts |-> Len(formatted)])

\* tools.getExerciseProgressByIds({ exerciseIds, limit, startDate, endDate })
tools_getExerciseProgressByIds(params, upstream) ==
    LET ws == hevyService_getWorkouts(FetchAllResult(upstream.workouts),
                                      params.startDate, params.endDate)
        allExercises == FetchAllResult(upstream.exercise_templates)
        exercises == SelectSeq(allExercises, LAMBDA t : t.id \in params.exerciseIds)
    IN  IF \/ getWorkoutsOutcome(upstream.workouts).kind = "rejected"
           \/ fetchAllOutcome(upstream.exercise_templates).kind = "rejected"
        THEN createErrorResponse("Failed to process exercise progress data")
        ELSE IF exercises = <<>>
        THEN createErrorResponse("No exercises found matching the provided IDs")
        ELSE createSuccessResponse(
                 [exerciseProgress |->
                     [k \in 1..Len(exercises) |->
                         processExerciseProgress(exercises[k], ws, params.limit)]])

\* tools.getRoutines()
tools_getRoutines(params, upstream) ==
    LET routines == FetchAllResult(upstream.routines)
    IN  IF Len(routines) = 0
        THEN createErrorResponse("Failed to retrieve routines")
        ELSE createSuccessResponse([routines |-> routines])

----------------------------------------------------------------------------
(* utils/oneRepMaxCalculator.ts: the 1RM formulas. A JavaScript number is   *)
(* an exact fraction n/d in lowest terms, Infinity, or there is null.       *)

Abs(x) == IF x < 0 THEN 0 - x ELSE x

RECURSIVE GCD(_, _)
GCD(a, b) == IF b = 0 THEN a ELSE GCD(b, a % b)

\* The number n/d (d # 0) in lowest terms with a positive denominator
Rat(n, d) ==
    LET g == GCD(Abs(n), Abs(d))
        sign == IF d < 0 THEN 0 - 1 ELSE 1
    IN  [kind |-> "num", n |-> sign * (n \div g), d |-> Abs(d) \div g]

Whole(k) == Rat(k, 1)
Infinity == [kind |-> "inf", n |-> 1, d |-> 0]
Null == [kind |-> "null", n |-> 0, d |-> 1]

RatAdd(a, b) == Rat(a.n * b.d + b.n * a.d, a.d * b.d)
RatSub(a, b) == Rat(a.n * b.d - b.n * a.d, a.d * b.d)
RatMul(a, b) == IF a.kind = "inf" \/ b.kind = "inf" THEN Infinity ELSE Rat(a.n * b.n, a.d * b.d)
\* a / b: Infinity when b is 0
RatDiv(a, b) == IF b.n = 0 THEN Infinity ELSE Rat(a.n * b.d, a.d * b.n)
RatLess(a, b) == a.n * b.d < b.n * a.d
RatLeq(a, b) == a.n * b.d <= b.n * a.d

\* Number.isInteger(x)
IsInteger(x) == x.kind = "num" /\ x.d = 1

\* Math.round(x * 10) / 10
RoundToTenth(x) == Rat((2 * 10 * x.n + x.d) \div (2 * x.d), 10)

\* Math.pow(reps, 0.1) for whole reps, to four decimals
TenthRoot ==
    << 10000, 10718, 11161, 11487, 11746, 11962, 12148, 12311, 12457, 12589,
       12710, 12821, 12924, 13020, 13110, 13195, 13275, 13351, 13424, 13493,
       13559, 13622, 13683, 13741, 13797, 13852, 13904, 13955, 14004, 14051,
       14097, 14142, 14186, 14228, 14269, 14310, 14349, 14387, 14425, 14461,
       14497, 14532, 14566, 14600, 14633 >>

pow01(reps) ==
    IF IsInteger(reps) /\ reps.n \in 1..Len(TenthRoot)
    THEN Rat(TenthRoot[reps.n], 10000)
    ELSE Rat(TenthRoot[Len(TenthRoot)], 10000)

\* A Brzycki formula without the guard at 37 repetitions
brzyckiFormula_NoClamp(weight, reps) ==
    IF reps = Whole(1) THEN weight
    ELSE RatMul(weight, RatDiv(Whole(36), RatSub(Whole(37), reps)))

\* brzyckiFormula(weight, reps)
brzyckiFormula(weight, reps) ==
    IF reps = Whole(1) THEN weight
    ELSE IF RatLeq(Whole(37), reps) THEN RatMul(weight, Whole(36))
    ELSE RatMul(weight, RatDiv(Whole(36), RatSub(Whole(37), reps)))

\* epleyFormula(weight, reps)
epleyFormula(weight, reps) ==
    IF reps = Whole(1) THEN weight
    ELSE RatMul(weight, RatAdd(Whole(1), RatMul(Rat(333, 10000), reps)))

\* lombardiFormula(weight, reps)
lombardiFormula(weight, reps) ==
    IF reps = Whole(1) THEN weight
    ELSE RatMul(weight, pow01(reps))

\* oconnerFormula(weight, reps)
oconnerFormula(weight, reps) ==
    IF reps = Whole(1) THEN weight
    ELSE RatMul(weight, RatAdd(Whole(1), RatMul(Rat(25, 1000), reps)))

OneRepMaxFormula == {"brzycki", "epley", "lombardi", "oconner"}
DefaultMaxAllowedReps == 15

\* switch (formula) { ... default: Brzycki }
ApplyFormula(formula, weight, reps) ==
    CASE formula = "brzycki" -> brzyckiFormula(weight, reps)
      [] formula = "epley" -> epleyFormula(weight, reps)
      [] formula = "lombardi" -> lombardiFormula(weight, reps)
      [] formula = "oconner" -> oconnerFormula(weight, reps)
      [] OTHER -> brzyckiFormula(weight, reps)

\* An estimator that applies the accuracy limit before the one-rep case
calculateEstimated1RM_LimitFirst(weight, reps, formula, maxAllowedReps) ==
    IF RatLeq(weight, Whole(0)) THEN Null
    ELSE IF RatLeq(reps, Whole(0)) \/ ~IsInteger(reps) THEN Null
    ELSE IF RatLess(Whole(maxAllowedReps), reps) THEN Null
    ELSE IF reps = Whole(1) THEN weight
    ELSE ApplyFormula(formula, weight, reps)

\* An estimator without the accuracy limit
calculateEstimated1RM_NoLimit(weight, reps, formula, maxAllowedReps) ==
    IF RatLeq(weight, Whole(0)) THEN Null
    ELSE IF RatLeq(reps, Whole(0)) \/ ~IsInteger(reps) THEN Null
    ELSE IF reps = Whole(1) THEN weight
    ELSE ApplyFormula(formula, weight, reps)

\* calculateEstimated1RM(weight, reps, formula, maxAllowedReps)
calculateEstimated1RM(weight, reps, formula, maxAllowedReps) ==
    IF RatLeq(weight, Whole(0)) THEN Null
    ELSE IF RatLeq(reps, Whole(0)) \/ ~IsInteger(reps) THEN Null
    ELSE IF reps = Whole(1) THEN weight
    ELSE IF RatLess(Whole(maxAllowedReps), reps) THEN Null
    ELSE ApplyFormula(formula, weight, reps)

WeightInputs == {Rat(0 - 5, 1), Whole(0), Rat(1, 2), Whole(1), Rat(5, 2), Whole(100)}
RepInputs == {Whole(r) : r \in (0 - 1)..MaxReps} \cup {Rat(3, 2), Rat(11, 2), Rat(73, 2)}
MaxAllowedRepsInputs == {0, 1, 10, DefaultMaxAllowedReps, MaxReps}

\* A caller estimates a one-rep max
EstimateCall(weight, reps, formula, maxAllowedReps) ==
    /\ calcRun' = [op |-> "calculateEstimated1RM",
                   input |-> [weight |-> weight, reps |-> reps, formula |-> formula,
                              maxAllowedReps |-> maxAllowedReps],
                   output |-> calculateEstimated1RM(weight, reps, formula, maxAllowedReps)]
    /\ UNCHANGED fetchVars
    /\ UNCHANGED lastCall
    /\ UNCHANGED recVars
    /\ UNCHANGED toolVars

\* A caller applies the Brzycki formula itself
BrzyckiCall(weight, reps) ==
    /\ calcRun' = [op |-> "brzyckiFormula",
                   input |-> [weight |-> weight, reps |-> reps, formula |-> "brzycki",
                              maxAllowedReps |-> 0],
                   output |-> brzyckiFormula(weight, reps)]
    /\ UNCHANGED fetchVars
    /\ UNCHANGED lastCall
    /\ UNCHANGED recVars
    /\ UNCHANGED toolVars

\* The function has returned and its caller goes on
CalcReturn ==
    /\ calcRun # NoCalc
    /\ calcRun' = NoCalc
    /\ UNCHANGED fetchVars
    /\ UNCHANGED lastCall
    /\ UNCHANGED recVars
    /\ UNCHANGED toolVars

InitOneRM ==
    /\ resource = ""
    /\ srvPageCount = 0
    /\ srvPages = [p \in 1..MaxPages |-> <<>>]
    /\ pc = "idle"
    /\ httpLog = <<>>
    /\ httpState = <<>>
    /\ completed = <<>>
    /\ firstPageResponse = Pending
    /\ pagePromises = <<>>
    /\ result = NoResult
    /\ lastCall = NoCall
    /\ workouts = <<>>
    /\ recPc = "off"
    /\ progress = <<>>
    /\ recordsByReps = <<>>
    /\ personalRecords = <<>>
    /\ curDate = 0
    /\ seen = {}
    /\ lastSet = NoSet
    /\ toolRun = NoRun
    /\ server = NoServer
    /\ calcRun = NoCalc

NextOneRM ==
    \/ /\ calcRun = NoCalc
       /\ \E weight \in WeightInputs, reps \in RepInputs, formula \in OneRepMaxFormula,
             maxAllowedReps \in MaxAllowedRepsInputs :
             EstimateCall(weight, reps, formula, maxAllowedReps)
    \/ /\ calcRun = NoCalc
       /\ \E weight \in WeightInputs, reps \in RepInputs : BrzyckiCall(weight, reps)
    \/ CalcReturn

SpecOneRM == InitOneRM /\ [][NextOneRM]_vars

\* The latest call is an estimate, with these arguments
Estimated == calcRun.op = "calculateEstimated1RM"
InWeight == calcRun.input.weight
InReps == calcRun.input.reps

\* C13 as stated: the estimate is null whenever weight <= 0, or reps <= 0,
\* or reps is not an integer, or reps > maxAllowedReps, for every formula
\* and every maxAllowedReps.
C13_InvalidInputsGiveNull ==
    (Estimated /\ \/ RatLeq(InWeight, Whole(0))
                  \/ RatLeq(InReps, Whole(0))
                  \/ ~IsInteger(InReps)
                  \/ RatLess(Whole(calcRun.input.maxAllowedReps), InReps))
        => calcRun.output = Null

\* C13 amended: the estimate is null whenever weight <= 0, or reps <= 0, or
\* reps is not an integer, or reps > maxAllowedReps and reps is not 1; a
\* single repetition of a positive weight gives the weight even when
\* maxAllowedReps is below 1.
C13_InvalidInputsGiveNullExceptOneRep ==
    /\ (Estimated /\ \/ RatLeq(InWeight, Whole(0))
                     \/ RatLeq(InReps, Whole(0))
                     \/ ~IsInteger(InReps)
                     \/ /\ RatLess(Whole(calcRun.input.maxAllowedReps), InReps)
                        /\ InReps # Whole(1))
           => calcRun.output = Null
    /\ (Estimated /\ RatLess(Whole(0), InWeight) /\ InReps = Whole(1)
                  /\ calcRun.input.maxAllowedReps < 1)
           => calcRun.output = InWeight

\* C13 witness: 100 kg for 16 repetitions under the default limit of 15
\* was estimated, and there is no result.
C13_Witness ==
    /\ Estimated
    /\ InWeight = Whole(100)
    /\ InReps = Whole(16)
    /\ calcRun.input.maxAllowedReps = DefaultMaxAllowedReps
    /\ calcRun.output = Null

\* C14: for every formula and every weight > 0 the estimate for one
\* repetition is exactly the weight.
C14_OneRepIsTheWeight ==
    (Estimated /\ RatLess(Whole(0), InWeight) /\ InReps = Whole(1))
        => calcRun.output = InWeight

\* C14 witness: 2.5 kg for one repetition was estimated with the Lombardi
\* formula, and the result is 2.5 kg.
C14_Witness ==
    /\ Estimated
    /\ InWeight = Rat(5, 2)
    /\ InReps = Whole(1)
    /\ calcRun.input.formula = "lombardi"
    /\ calcRun.output = Rat(5, 2)

\* C15: the Brzycki formula returns weight x 36 for every reps >= 37, and
\* for 1 <= reps <= 36 it divides by a positive number: the result is
\* finite and at least the weight in magnitude, with the weight's sign.
C15_BrzyckiDivisorPositive ==
    calcRun.op = "brzyckiFormula" =>
        /\ RatLeq(Whole(37), InReps) => calcRun.output = RatMul(InWeight, Whole(36))
        /\ (RatLeq(Whole(1), InReps) /\ RatLeq(InReps, Whole(36))) =>
              /\ calcRun.output.kind = "num"
              /\ RatLess(Whole(0), RatSub(Whole(37), InReps))
              /\ calcRun.output =
                     RatDiv(RatMul(InWeight, Whole(36)), RatSub(Whole(37), InReps))
              /\ RatLeq(Whole(0), InWeight) => RatLeq(InWeight, calcRun.output)
              /\ RatLeq(InWeight, Whole(0)) => RatLeq(calcRun.output, InWeight)

\* C15 witness: the Brzycki formula was applied to 100 kg for 38
\* repetitions and gave 3600.
C15_Witness ==
    /\ calcRun.op = "brzyckiFormula"
    /\ InWeight = Whole(100)
    /\ InReps = Whole(38)
    /\ calcRun.output = Whole(3600)

----------------------------------------------------------------------------
(* services/hevyService.ts: getExercises, the exercise summaries            *)

\* String.prototype.toLowerCase, a text being the sequence of its characters
toLowerCase(text) ==
    LET lower(c) == CASE c = "S" -> "s" [] c = "Q" -> "q" [] c = "P" -> "p"
                      [] c = "Z" -> "z" [] OTHER -> c
    IN  [i \in 1..Len(text) |-> lower(text[i])]

\* String.prototype.includes
includes(text, part) ==
    \E i \in 0..(Len(text) - Len(part)) : SubSeq(text, i + 1, i + Len(part)) = part

\* template.title.toLowerCase().includes(searchTerm.toLowerCase())
MatchesSearch(template, searchTerm) ==
    includes(toLowerCase(template.title), toLowerCase(searchTerm))

\* A name filter that lets every template through
FilterTemplates_IgnoreTerm(allExerciseTemplates, searchTerm) == allExerciseTemplates

\* searchTerm ? allExerciseTemplates.filter(...) : allExerciseTemplates
\* (no search term: undefined, or the empty text)
FilterTemplates(allExerciseTemplates, searchTerm) ==
    IF searchTerm.given /\ searchTerm.text # <<>>
    THEN SelectSeq(allExerciseTemplates, LAMBDA t : MatchesSearch(t, searchTerm.text))
    ELSE allExerciseTemplates

\* The sets of one exercise that the record loop reads, in loop order: by
\* workout, by exercise entry, by set; each with its workout's start_time;
\* if (set.type === 'warmup' || !set.weight_kg || !set.reps) continue
RecordSets(allWorkouts, exerciseId) ==
    Flatten([w \in 1..Len(allWorkouts) |->
        Flatten([e \in 1..Len(allWorkouts[w].exercises) |->
            IF allWorkouts[w].exercises[e].exercise_template_id # exerciseId THEN <<>>
            ELSE LET sets == SelectSeq(allWorkouts[w].exercises[e].sets,
                                       LAMBDA x : ~(\/ x.type = "warmup"
                                                    \/ x.weight_kg = 0
                                                    \/ x.reps = 0))
                 IN  [i \in 1..Len(sets) |->
                        [reps |-> sets[i].reps, weight |-> sets[i].weight_kg,
                         date |-> allWorkouts[w].start_time]]])])

\* exerciseRecords.get(exerciseId) after the loop: max weight per rep count,
\* in the Map's insertion order
RECURSIVE FoldRecordSets(_, _)
FoldRecordSets(map, sets) ==
    IF sets = <<>> THEN map
    ELSE LET x == Head(sets)
         IN  FoldRecordSets(IF IsRecord(map, x.reps, x.weight)
                            THEN MapSet(map, x.reps, x.weight, x.date)
                            ELSE map,
                            Tail(sets))

ExerciseRecords(allWorkouts, exerciseId) ==
    FoldRecordSets(<<>>, RecordSets(allWorkouts, exerciseId))

\* A frequency that counts every entry of the exercise
ExerciseFrequency_PerEntry(allWorkouts, exerciseId) ==
    Len(Flatten([w \in 1..Len(allWorkouts) |->
            SelectSeq(allWorkouts[w].exercises,
                      LAMBDA ex : ex.exercise_template_id = exerciseId)]))

\* exerciseFrequency.get(exerciseId) || 0: the workouts whose
\* exercisesInWorkout set holds the exercise
ExerciseFrequency(allWorkouts, exerciseId) ==
    Cardinality({w \in 1..Len(allWorkouts) :
        \E e \in 1..Len(allWorkouts[w].exercises) :
            allWorkouts[w].exercises[e].exercise_template_id = exerciseId})

\* records.forEach: keep the highest valid estimate, the first one on a tie
RECURSIVE HighestEstimate(_, _, _)
HighestEstimate(records, k, best) ==
    IF k > Len(records) THEN best
    ELSE LET oneRM == calculateEstimated1RM(Whole(records[k].weight_kg),
                                            Whole(records[k].reps),
                                            "brzycki", DefaultMaxAllowedReps)
         IN  HighestEstimate(records, k + 1,
                 IF oneRM # Null /\ (best.value = Null \/ RatLess(best.value, oneRM))
                 THEN [value |-> oneRM, date |-> records[k].date]
                 ELSE best)

\* An estimated 1RM stored without the rounding
EstimatedOneRepMax_Unrounded(records) ==
    LET best == HighestEstimate(records, 1, [value |-> Null, date |-> 0])
    IN  IF best.value = Null THEN Null
        ELSE [weightKg |-> best.value, date |-> best.date]

\* exerciseOneRepMax.get(exerciseId) || null
EstimatedOneRepMax(records) ==
    LET best == HighestEstimate(records, 1, [value |-> Null, date |-> 0])
    IN  IF best.value = Null THEN Null
        ELSE [weightKg |-> RoundToTenth(best.value), date |-> best.date]

\* records.forEach: the maximum weight, the first one on a tie
RECURSIVE MaxWeight(_, _, _)
MaxWeight(records, k, best) ==
    IF k > Len(records) THEN best
    ELSE MaxWeight(records, k + 1,
             IF records[k].weight_kg > best.maxWeight
             THEN [maxWeight |-> records[k].weight_kg, maxWeightDate |-> records[k].date]
             ELSE best)

\* An actual 1RM taken from the one-repetition record only
ActualOneRepMax_OneRepOnly(records) ==
    IF MapHas(records, 1)
    THEN [weightKg |-> Whole(MapGet(records, 1).weight_kg), date |-> MapGet(records, 1).date]
    ELSE Null

\* exerciseActualOneRM.get(exerciseId) || null
ActualOneRepMax(records) ==
    LET best == MaxWeight(records, 1, [maxWeight |-> 0, maxWeightDate |-> 0])
    IN  IF best.maxWeight > 0
        THEN [weightKg |-> Whole(best.maxWeight), date |-> best.maxWeightDate]
        ELSE Null

\* A summary that keeps the unused exercises whatever excludeUnused says
ExcludeUnused_Never(exerciseData, excludeUnused) == exerciseData

\* if (excludeUnused) exerciseData = exerciseData.filter((e) => e.frequency > 0)
ExcludeUnused(exerciseData, excludeUnused) ==
    IF excludeUnused THEN SelectSeq(exerciseData, LAMBDA x : x.frequency > 0)
    ELSE exerciseData

\* hevyService.getExercises(searchTerm, excludeUnused, startDate, endDate) on
\* the fetched templates and workouts; the result, and whether it threw
hevyService_getExercises(templates, fetched, searchTerm, excludeUnused, startDate, endDate) ==
    LET allWorkouts == hevyService_getWorkouts(fetched, startDate, endDate)
        filtered == FilterTemplates(templates, searchTerm)
        exerciseData ==
            [k \in 1..Len(filtered) |->
                LET records == ExerciseRecords(allWorkouts, filtered[k].id)
                IN  [id |-> filtered[k].id,
                     name |-> filtered[k].title,
                     frequency |-> ExerciseFrequency(allWorkouts, filtered[k].id),
                     estimated1RM |-> EstimatedOneRepMax(records),
                     actual1RM |-> ActualOneRepMax(records),
                     primary_muscle_group |-> filtered[k].primary_muscle_group]]
        kept == ExcludeUnused(exerciseData, excludeUnused)
    IN  IF Len(allWorkouts) = 0 \/ Len(templates) = 0
        THEN [threw |-> FALSE, value |-> <<>>]
        ELSE IF Len(filtered) = 0
        THEN [threw |-> FALSE, value |-> <<>>]
        ELSE [threw |-> FALSE,
              value |-> SortByKeys(kept, [k \in 1..Len(kept) |-> 0 - kept[k].frequency])]

----------------------------------------------------------------------------
(* calculateVolumeByMuscleGroup: the volume per primary muscle group        *)

\* A lookup that falls back on the first template when the id is unknown
FindTemplate_FirstOnMiss(exercises, id) ==
    IF \E i \in 1..Len(exercises) : exercises[i].id = id
    THEN [found |-> TRUE,
          template |-> exercises[CHOOSE i \in 1..Len(exercises) :
                                    /\ exercises[i].id = id
                                    /\ \A j \in 1..(i - 1) : exercises[j].id # id]]
    ELSE IF exercises # <<>> THEN [found |-> TRUE, template |-> exercises[1]]
    ELSE [found |-> FALSE, template |-> <<>>]

\* exercises.find((e) => e.id === exercise.exercise_template_id)
FindTemplate(exercises, id) ==
    IF \E i \in 1..Len(exercises) : exercises[i].id = id
    THEN [found |-> TRUE,
          template |-> exercises[CHOOSE i \in 1..Len(exercises) :
                                    /\ exercises[i].id = id
                                    /\ \A j \in 1..(i - 1) : exercises[j].id # id]]
    ELSE [found |-> FALSE, template |-> <<>>]

MuscleHas(acc, muscle) == \E k \in 1..Len(acc) : acc[k].muscleGroup = muscle
MuscleGet(acc, muscle) == acc[CHOOSE k \in 1..Len(acc) : acc[k].muscleGroup = muscle]
MusclePut(acc, muscle, volume, sets) ==
    IF MuscleHas(acc, muscle)
    THEN [k \in 1..Len(acc) |->
             IF acc[k].muscleGroup = muscle
             THEN [muscleGroup |-> muscle, volume |-> volume, sets |-> sets]
             ELSE acc[k]]
    ELSE Append(acc, [muscleGroup |-> muscle, volume |-> volume, sets |-> sets])

\* if (!volumeByMuscle[muscleGroup]) { both counters = 0 }: also when the
\* volume so far is 0
MuscleStart(acc, muscle) ==
    IF ~MuscleHas(acc, muscle) \/ MuscleGet(acc, muscle).volume.n = 0
    THEN MusclePut(acc, muscle, Whole(0), 0)
    ELSE acc

\* A loop body that adds the weight without the repetitions
AddSetVolume_WeightOnly(acc, muscle, set) ==
    LET cur == MuscleGet(acc, muscle)
    IN  IF set.weight_kg.kind # "null" /\ set.weight_kg.n # 0 /\ set.reps # 0
        THEN MusclePut(acc, muscle, RatAdd(cur.volume, set.weight_kg), cur.sets + 1)
        ELSE MusclePut(acc, muscle, cur.volume, cur.sets + 1)

\* The loop body for one set: if (set.weight_kg && set.reps); weight_kg is a
\* number or null, reps a whole number with 0 for null
AddSetVolume(acc, muscle, set) ==
    LET cur == MuscleGet(acc, muscle)
    IN  IF set.weight_kg.kind # "null" /\ set.weight_kg.n # 0 /\ set.reps # 0
        THEN MusclePut(acc, muscle,
                       RatAdd(cur.volume, RatMul(set.weight_kg, Whole(set.reps))),
                       cur.sets + 1)
        ELSE MusclePut(acc, muscle, cur.volume, cur.sets + 1)

RECURSIVE AddSetsVolume(_, _, _)
AddSetsVolume(acc, muscle, sets) ==
    IF sets = <<>> THEN acc
    ELSE AddSetsVolume(AddSetVolume(acc, muscle, Head(sets)), muscle, Tail(sets))

\* The loop body for one exercise entry
AddExerciseVolume(acc, exercises, entry) ==
    LET t == FindTemplate(exercises, entry.exercise_template_id)
    IN  IF ~t.found THEN acc
        ELSE AddSetsVolume(MuscleStart(acc, t.template.primary_muscle_group),
                           t.template.primary_muscle_group, entry.sets)

RECURSIVE AddEntriesVolume(_, _, _)
AddEntriesVolume(acc, exercises, entries) ==
    IF entries = <<>> THEN acc
    ELSE AddEntriesVolume(AddExerciseVolume(acc, exercises, Head(entries)),
                          exercises, Tail(entries))

\* calculateVolumeByMuscleGroup(workouts, exercises): the keys sorted by
\* volume, largest first (a stable sort of the insertion order), then each
\* volume through Math.round
calculateVolumeByMuscleGroup(ws, exercises) ==
    LET entries == Flatten([w \in 1..Len(ws) |-> ws[w].exercises])
        acc == AddEntriesVolume(<<>>, exercises, entries)
        rank(i) == Cardinality({k \in 1..Len(acc) : RatLess(acc[i].volume, acc[k].volume)})
                   + Cardinality({k \in 1..(i - 1) : acc[k].volume = acc[i].volume}) + 1
        sortedMuscles == [r \in 1..Len(acc) |-> acc[CHOOSE i \in 1..Len(acc) : rank(i) = r]]
    IN  [r \in 1..Len(acc) |->
            [muscleGroup |-> sortedMuscles[r].muscleGroup,
             volume |-> RoundDiv(sortedMuscles[r].volume.n, sortedMuscles[r].volume.d),
             sets |-> sortedMuscles[r].sets]]

----------------------------------------------------------------------------
(* The analytics functions called on fetched data                            *)

NormalSet(w, r) == [type |-> "normal", weight_kg |-> w, reps |-> r]
WarmupSet(w, r) == [type |-> "warmup", weight_kg |-> w, reps |-> r]
Entry(id, sets) == [exercise_template_id |-> id, title |-> id, sets |-> sets]

SummaryExerciseLists ==
    { << Entry("X", << NormalSet(90, 1), NormalSet(110, 3), NormalSet(100, 5) >>) >>,
      << Entry("X", << NormalSet(100, 5) >>),
         Entry("X", << WarmupSet(120, 1), NormalSet(90, 16) >>) >>,
      << Entry("Y", << NormalSet(140, 3) >>),
         Entry("X", << NormalSet(0, 10), NormalSet(90, 16) >>) >>,
      << Entry("Y", <<>>), Entry("Z", << NormalSet(50, 2) >>),
         Entry("X", << NormalSet(0, 10) >>) >> }

\* Workouts for the volume aggregation: weights in half kilograms, a
\* missing weight, a warm-up set, an entry without sets, an unknown exercise
VolumeSet(type, w, r) == [type |-> type, weight_kg |-> w, reps |-> r]

VolumeExerciseLists ==
    { << Entry("X", << VolumeSet("normal", Rat(5, 2), 3), VolumeSet("normal", Whole(100), 5) >>) >>,
      << Entry("X", << VolumeSet("normal", Null, 10) >>),
         Entry("X", << VolumeSet("warmup", Whole(120), 1), VolumeSet("normal", Whole(90), 16) >>) >>,
      << Entry("Y", << VolumeSet("normal", Whole(140), 3) >>),
         Entry("X", << VolumeSet("normal", Whole(0), 10), VolumeSet("normal", Whole(2), 0) >>) >>,
      << Entry("Y", <<>>), Entry("Z", << VolumeSet("normal", Whole(50), 2) >>) >> }

VolumeWorkoutLists ==
    LET values == { [id |-> "A", title |-> "Workout", start_time |-> 1, end_time |-> 1,
                     exercises |-> ex] : ex \in VolumeExerciseLists }
    IN  UNION {[1..n -> values] : n \in 0..MaxToolWorkouts}

SummaryWorkoutLists ==
    LET values == { [id |-> "A", title |-> "Workout", start_time |-> d, end_time |-> d,
                     exercises |-> ex] : d \in Dates, ex \in SummaryExerciseLists }
    IN  UNION {[1..n -> values] : n \in 0..MaxToolWorkouts}

SummaryTemplateX == [id |-> "X", title |-> <<"S", "q">>, primary_muscle_group |-> "quadriceps"]
SummaryTemplateY == [id |-> "Y", title |-> <<"s", "P">>, primary_muscle_group |-> "chest"]
SummaryTemplateLists ==
    {<<>>, <<SummaryTemplateX>>, <<SummaryTemplateX, SummaryTemplateY>>,
     <<SummaryTemplateY, SummaryTemplateX>>}

NoTerm == [given |-> FALSE, text |-> <<>>]
SearchTerms ==
    {NoTerm} \cup {[given |-> TRUE, text |-> t] : t \in {<<>>, <<"S">>, <<"Q">>, <<"z">>}}

DateRanges == {<<0, 0>>, <<2, 0>>, <<0, 1>>, <<1, 2>>}

----------------------------------------------------------------------------
(* Arrays by identity: the array the fetch layer handed out, which the     *)
(* cache may share, and the arrays an operation creates. Array.sort sorts  *)
(* its receiver in place; filter, map and the spread create a new array.   *)

Fetched(items) == [ref |-> "fetched", items |-> items]
Fresh(items) == [ref |-> "fresh", items |-> items]

\* receiver.sort(compare): the items of the fetched array afterwards
SortInPlace(receiver, keys, fetched) ==
    IF receiver.ref = "fetched" THEN SortByKeys(receiver.items, keys) ELSE fetched

\* A getWorkouts that sorts the array it was handed
getWorkouts_FetchedAfter_NoCopy(allWorkouts, startDate, endDate) ==
    LET all == Fetched(allWorkouts)
    IN  SortInPlace(all, [k \in 1..Len(all.items) |-> 0 - all.items[k].start_time],
                    allWorkouts)

\* hevyService.getWorkouts: allWorkouts.filter(...) is a new array, and the
\* sort runs on [...filteredWorkouts]; the fetched array afterwards
getWorkouts_FetchedAfter(allWorkouts, startDate, endDate) ==
    LET all == Fetched(allWorkouts)
        filteredWorkouts == Fresh(SelectSeq(all.items, LAMBDA w :
                                /\ startDate = 0 \/ w.start_time >= startDate
                                /\ endDate = 0 \/ w.start_time <= endDate))
        copy == Fresh(filteredWorkouts.items)
    IN  SortInPlace(copy, [k \in 1..Len(copy.items) |-> 0 - copy.items[k].start_time],
                    allWorkouts)

\* analyzeProgressForExercise: workouts.filter(...).map(...) is a new array
\* of new objects, sorted in place; the fetched array afterwards
analyzeProgressForExercise_FetchedAfter(exerciseId, ws) ==
    LET all == Fetched(ws)
        containing == Fresh(SelectSeq(all.items, LAMBDA w : ContainsExercise(w, exerciseId)))
        exerciseDataFromWorkouts ==
            Fresh([k \in 1..Len(containing.items) |->
                      [date |-> containing.items[k].start_time]])
    IN  SortInPlace(exerciseDataFromWorkouts,
                    [k \in 1..Len(exerciseDataFromWorkouts.items) |->
                        0 - exerciseDataFromWorkouts.items[k].date],
                    ws)

----------------------------------------------------------------------------
(* The tool handlers called against an upstream                             *)

\* tools.getExercises({ searchTerm, excludeUnused, startDate, endDate })
tools_getExercises(params, upstream) ==
    LET exercises == hevyService_getExercises(FetchAllResult(upstream.exercise_templates),
                                              getWorkoutsOutcome(upstream.workouts).value,
                                              params.searchTerm, params.excludeUnused,
                                              params.startDate, params.endDate)
    IN  IF exercises.threw
        THEN createErrorResponse("Failed to retrieve exercises")
        ELSE IF exercises.value = <<>>
        THEN createErrorResponse(IF params.searchTerm.given /\ params.searchTerm.text # <<>>
                                 THEN "No exercises found matching"
                                 ELSE "No exercise data found")
        ELSE createSuccessResponse([exercises |-> exercises.value])

ToolResponse(tool, params, upstream) ==
    CASE tool = "get-workouts" -> tools_getWorkouts(params, upstream)
      [] tool = "get-exercise-progress-by-ids" -> tools_getExerciseProgressByIds(params, upstream)
      [] tool = "get-routines" -> tools_getRoutines(params, upstream)
      [] tool = "get-exercises" -> tools_getExercises(params, upstream)

\* An exception leaves the handler: getWorkouts and getRoutines await the
\* service outside any try block, the two other handlers catch everything
ToolEscapes(tool, upstream) ==
    CASE tool = "get-workouts" -> getWorkoutsOutcome(upstream.workouts).kind = "rejected"
      [] tool = "get-routines" -> fetchAllOutcome(upstream.routines).kind = "rejected"
      [] tool = "get-exercise-progress-by-ids" -> FALSE
      [] tool = "get-exercises" -> FALSE

(* The upstream's state when a tool is called *)

ToolExerciseLists ==
    { <<>>,
      << [exercise_template_id |-> "X", title |-> "Bench Press",
          sets |-> << [type |-> "normal", weight_kg |-> 2, reps |-> 1] >>] >>,
      << [exercise_template_id |-> "Y", title |-> "Squat", sets |-> <<>>],
         [exercise_template_id |-> "X", title |-> "Bench Press",
          sets |-> << [type |-> "warmup", weight_kg |-> 2, reps |-> 2],
                      [type |-> "normal", weight_kg |-> 1, reps |-> 2] >>] >> }

ToolWorkoutValues ==
    { [id |-> i, title |-> "Workout", start_time |-> d, end_time |-> d, exercises |-> ex] :
          i \in {"A", "B"}, d \in Dates, ex \in ToolExerciseLists }

ToolWorkoutLists == UNION {[1..n -> ToolWorkoutValues] : n \in 0..MaxToolWorkouts}

TemplateX == [id |-> "X", title |-> "Bench Press"]
TemplateY == [id |-> "Y", title |-> "Squat"]
ToolTemplateLists == {<<>>, <<TemplateX>>, <<TemplateX, TemplateY>>}

ToolRoutineLists == {<<>>, <<[id |-> "R1", title |-> "Upper Body"]>>,
                     <<[id |-> "R1", title |-> "Upper Body"],
                       [id |-> "R2", title |-> "Lower Body"]>>}

Answered(items) == [failed |-> FALSE, items |-> items]
Failing == [failed |-> TRUE, items |-> <<>>]
Unused == Answered(<<>>)

WorkoutOutcomes == {Answered(ws) : ws \in ToolWorkoutLists} \cup {Failing}
TemplateOutcomes == {Answered(ts) : ts \in ToolTemplateLists} \cup {Failing}
RoutineOutcomes == {Answered(rs) : rs \in ToolRoutineLists} \cup {Failing}

Limits == {0, 1, 2}
DateParams == {0, 1, 2}          \* 0: the parameter is not given
IdSets == {{}, {"X"}, {"X", "Y"}, {"Z"}}

\* A tool call is handled: the handler has run against the upstream and its
\* response is ready to be sent (the server is between calls: toolRun = NoRun)
ToolCall(tool, params, upstream, response) ==
    /\ toolRun' = [tool |-> tool, params |-> params, upstream |-> upstream,
                   response |-> response,
                   escaped |-> ToolEscapes(tool, upstream)]
    /\ UNCHANGED server
    /\ UNCHANGED fetchVars
    /\ UNCHANGED lastCall
    /\ UNCHANGED recVars
    /\ UNCHANGED calcVars

GetWorkoutsTool ==
    /\ toolRun = NoRun
    /\ \E lim \in Limits, from \in DateParams, to \in DateParams,
          ws \in WorkoutOutcomes :
        LET params == [limit |-> lim, startDate |-> from, endDate |-> to,
                       exerciseIds |-> {}]
            upstream == [workouts |-> ws, exercise_templates |-> Unused,
                         routines |-> Unused]
        IN  ToolCall("get-workouts", params, upstream,
                     tools_getWorkouts(params, upstream))

GetExerciseProgressByIdsTool ==
    /\ toolRun = NoRun
    /\ \E lim \in Limits, from \in DateParams, to \in DateParams,
          ids \in IdSets, ws \in WorkoutOutcomes, ts \in TemplateOutcomes :
        LET params == [limit |-> lim, startDate |-> from, endDate |-> to,
                       exerciseIds |-> ids]
            upstream == [workouts |-> ws, exercise_templates |-> ts,
                         routines |-> Unused]
        IN  ToolCall("get-exercise-progress-by-ids", params, upstream,
                     tools_getExerciseProgressByIds(params, upstream))

GetRoutinesTool ==
    /\ toolRun = NoRun
    /\ \E rs \in RoutineOutcomes :
        LET params == [limit |-> 0, startDate |-> 0, endDate |-> 0, exerciseIds |-> {}]
            upstream == [workouts |-> Unused, exercise_templates |-> Unused,
                         routines |-> rs]
        IN  ToolCall("get-routines", params, upstream,
                     tools_getRoutines(params, upstream))

GetExercisesTool ==
    /\ toolRun = NoRun
    /\ \E term \in SearchTerms, unused \in BOOLEAN,
          ws \in {Answered(w) : w \in SummaryWorkoutLists} \cup {Failing},
          ts \in {Answered(t) : t \in SummaryTemplateLists} \cup {Failing} :
        LET params == [limit |-> 0, startDate |-> 0, endDate |-> 0, exerciseIds |-> {},
                       searchTerm |-> term, excludeUnused |-> unused]
            upstream == [workouts |-> ws, exercise_templates |-> ts,
                         routines |-> Unused]
        IN  ToolCall("get-exercises", params, upstream,
                     tools_getExercises(params, upstream))

\* The response is sent to the client; the server waits for the next call
ToolReturn ==
    /\ toolRun # NoRun
    /\ toolRun' = NoRun
    /\ UNCHANGED server
    /\ UNCHANGED fetchVars
    /\ UNCHANGED lastCall
    /\ UNCHANGED recVars
    /\ UNCHANGED calcVars

InitTools ==
    /\ resource = ""
    /\ srvPageCount = 0
    /\ srvPages = [p \in 1..MaxPages |-> <<>>]
    /\ pc = "idle"
    /\ httpLog = <<>>
    /\ httpState = <<>>
    /\ completed = <<>>
    /\ firstPageResponse = Pending
    /\ pagePromises = <<>>
    /\ result = NoResult
    /\ lastCall = NoCall
    /\ workouts = <<>>
    /\ recPc = "off"
    /\ progress = <<>>
    /\ recordsByReps = <<>>
    /\ personalRecords = <<>>
    /\ curDate = 0
    /\ seen = {}
    /\ lastSet = NoSet
    /\ toolRun = NoRun
    /\ server = NoServer
    /\ calcRun = NoCalc

NextTools ==
    \/ GetWorkoutsTool
    \/ GetExerciseProgressByIdsTool
    \/ GetRoutinesTool
    \/ GetExercisesTool
    \/ ToolReturn

SpecTools == InitTools /\ [][NextTools]_vars

\* The resources a tool fetches
Fetches(tool) ==
    CASE tool = "get-workouts" -> {"workouts"}
      [] tool = "get-exercise-progress-by-ids" -> {"workouts", "exercise_templates"}
      [] tool = "get-routines" -> {"routines"}
      [] tool = "get-exercises" -> {"workouts", "exercise_templates"}
      [] OTHER -> {}

NoneFailed(tool, upstream) == \A r \in Fetches(tool) : ~upstream[r].failed

\* The upstream states that differ from `upstream` in that some of the
\* tool's fetches fail
FailureScenarios(tool, upstream) ==
    { up \in [{"workouts", "exercise_templates", "routines"} -> {Failing} \cup
                 {upstream[r] : r \in {"workouts", "exercise_templates", "routines"}}] :
        /\ \A r \in DOMAIN up : up[r] = Failing \/ up[r] = upstream[r]
        /\ \A r \in DOMAIN up : r \notin Fetches(tool) => up[r] = upstream[r]
        /\ \E r \in Fetches(tool) : up[r] = Failing }

\* The result a tool derives from the answered requests is empty
DerivedEmpty(tool, params, upstream) ==
    CASE tool = "get-workouts" ->
             hevyService_getWorkouts(upstream.workouts.items,
                                     params.startDate, params.endDate) = <<>>
      [] tool = "get-exercise-progress-by-ids" ->
             SelectSeq(upstream.exercise_templates.items,
                       LAMBDA t : t.id \in params.exerciseIds) = <<>>
      [] tool = "get-routines" -> upstream.routines.items = <<>>
      [] OTHER -> FALSE

\* C7: a tool call whose upstream requests all succeed and whose derived
\* result is empty answers with a success response, and that response
\* differs from the one the same call gives when an upstream request fails.
C7_EmptyDiffersFromFailure ==
    (toolRun.tool # "" /\ NoneFailed(toolRun.tool, toolRun.upstream)
       /\ DerivedEmpty(toolRun.tool, toolRun.params, toolRun.upstream))
        => /\ ~toolRun.response.isError
           /\ \A up \in FailureScenarios(toolRun.tool, toolRun.upstream) :
                 ~SameResponse(ToolResponse(toolRun.tool, toolRun.params, up),
                               toolRun.response)

----------------------------------------------------------------------------
(* The analytics functions called on fetched data: the specification        *)

GetExercisesCall(templates, fetched, searchTerm, excludeUnused, startDate, endDate) ==
    /\ calcRun' = [op |-> "getExercises",
                   input |-> [templates |-> templates, workouts |-> fetched,
                              searchTerm |-> searchTerm, excludeUnused |-> excludeUnused,
                              startDate |-> startDate, endDate |-> endDate, limit |-> 0],
                   output |-> hevyService_getExercises(templates, fetched, searchTerm,
                                                       excludeUnused, startDate, endDate),
                   fetchedAfter |-> getWorkouts_FetchedAfter(fetched, startDate, endDate)]
    /\ UNCHANGED fetchVars
    /\ UNCHANGED lastCall
    /\ UNCHANGED recVars
    /\ UNCHANGED toolVars

VolumeByMuscleGroupCall(templates, fetched) ==
    /\ calcRun' = [op |-> "calculateVolumeByMuscleGroup",
                   input |-> [templates |-> templates, workouts |-> fetched,
                              searchTerm |-> NoTerm, excludeUnused |-> FALSE,
                              startDate |-> 0, endDate |-> 0, limit |-> 0],
                   output |-> calculateVolumeByMuscleGroup(fetched, templates),
                   fetchedAfter |-> fetched]
    /\ UNCHANGED fetchVars
    /\ UNCHANGED lastCall
    /\ UNCHANGED recVars
    /\ UNCHANGED toolVars

ExerciseProgressCall(template, fetched, limit) ==
    /\ calcRun' = [op |-> "processExerciseProgress",
                   input |-> [templates |-> <<template>>, workouts |-> fetched,
                              searchTerm |-> NoTerm, excludeUnused |-> FALSE,
                              startDate |-> 0, endDate |-> 0, limit |-> limit],
                   output |-> processExerciseProgress(template, fetched, limit),
                   fetchedAfter |-> analyzeProgressForExercise_FetchedAfter(template.id,
                                                                            fetched)]
    /\ UNCHANGED fetchVars
    /\ UNCHANGED lastCall
    /\ UNCHANGED recVars
    /\ UNCHANGED toolVars

InitSummary ==
    /\ resource = ""
    /\ srvPageCount = 0
    /\ srvPages = [p \in 1..MaxPages |-> <<>>]
    /\ pc = "idle"
    /\ httpLog = <<>>
    /\ httpState = <<>>
    /\ completed = <<>>
    /\ firstPageResponse = Pending
    /\ pagePromises = <<>>
    /\ result = NoResult
    /\ lastCall = NoCall
    /\ workouts = <<>>
    /\ recPc = "off"
    /\ progress = <<>>
    /\ recordsByReps = <<>>
    /\ personalRecords = <<>>
    /\ curDate = 0
    /\ seen = {}
    /\ lastSet = NoSet
    /\ toolRun = NoRun
    /\ server = NoServer
    /\ calcRun = NoCalc

NextSummary ==
    \/ /\ calcRun = NoCalc
       /\ \E templates \in SummaryTemplateLists, fetched \in SummaryWorkoutLists,
             searchTerm \in SearchTerms, excludeUnused \in BOOLEAN, range \in DateRanges :
             GetExercisesCall(templates, fetched, searchTerm, excludeUnused,
                              range[1], range[2])
    \/ /\ calcRun = NoCalc
       /\ \E templates \in SummaryTemplateLists, fetched \in VolumeWorkoutLists :
             VolumeByMuscleGroupCall(templates, fetched)
    \/ /\ calcRun = NoCalc
       /\ \E template \in {SummaryTemplateX, SummaryTemplateY},
             fetched \in SummaryWorkoutLists, limit \in Limits :
             ExerciseProgressCall(template, fetched, limit)
    \/ CalcReturn

SpecSummary == InitSummary /\ [][NextSummary]_vars

\* The workouts without their warm-up sets
WithoutWarmups(ws) ==
    [w \in 1..Len(ws) |->
        [ws[w] EXCEPT !.exercises =
            [e \in 1..Len(ws[w].exercises) |->
                [ws[w].exercises[e] EXCEPT !.sets =
                    SelectSeq(ws[w].exercises[e].sets, LAMBDA x : x.type # "warmup")]]]]

\* The volume credited to a muscle group
VolumeOf(volumeData, muscle) ==
    IF MuscleHas(volumeData, muscle) THEN MuscleGet(volumeData, muscle).volume ELSE 0

\* The records and volume credits of the latest call are those the same
\* call gives on the workouts without their warm-up sets
RecordsIgnoreWarmups ==
    calcRun.op = "processExerciseProgress" =>
        calcRun.output.personalRecords =
            processExerciseProgress(calcRun.input.templates[1],
                                    WithoutWarmups(calcRun.input.workouts),
                                    calcRun.input.limit).personalRecords

SummaryIgnoresWarmups ==
    calcRun.op = "getExercises" =>
        calcRun.output =
            hevyService_getExercises(calcRun.input.templates,
                                     WithoutWarmups(calcRun.input.workouts),
                                     calcRun.input.searchTerm, calcRun.input.excludeUnused,
                                     calcRun.input.startDate, calcRun.input.endDate)

VolumeIgnoresWarmups ==
    calcRun.op = "calculateVolumeByMuscleGroup" =>
        \A muscle \in {"quadriceps", "chest"} :
            VolumeOf(calcRun.output, muscle) =
                VolumeOf(calculateVolumeByMuscleGroup(WithoutWarmups(calcRun.input.workouts),
                                                      calcRun.input.templates), muscle)

\* C12: warm-up sets contribute to no record and to no volume credit in
\* any of the three analytics: the records-by-reps table, the exercise
\* summaries (weight-by-rep table, 1RM values) and the per-muscle volume.
C12_WarmupsNeverCredited ==
    /\ RecordsIgnoreWarmups
    /\ SummaryIgnoresWarmups
    /\ VolumeIgnoresWarmups

\* The latest call built exercise summaries; the workouts of its input that
\* lie within its date range; the templates that pass its name filter
Summarised == calcRun.op = "getExercises"

InRange ==
    {w \in 1..Len(calcRun.input.workouts) :
        /\ calcRun.input.startDate = 0
           \/ calcRun.input.workouts[w].start_time >= calcRun.input.startDate
        /\ calcRun.input.endDate = 0
           \/ calcRun.input.workouts[w].start_time <= calcRun.input.endDate}

NamedTemplates ==
    {t \in 1..Len(calcRun.input.templates) :
        \/ ~calcRun.input.searchTerm.given
        \/ calcRun.input.searchTerm.text = <<>>
        \/ MatchesSearch(calcRun.input.templates[t], calcRun.input.searchTerm.text)}

\* The workouts in range that hold an entry of the exercise
WorkoutsWith(id) ==
    {w \in InRange :
        \E e \in 1..Len(calcRun.input.workouts[w].exercises) :
            calcRun.input.workouts[w].exercises[e].exercise_template_id = id}

\* The qualifying non-warm-up sets of the exercise in the workouts in
\* range: weight, reps and the date of the workout
QualifyingSets(id) ==
    UNION {UNION {{[weight |-> entry.sets[i].weight_kg, reps |-> entry.sets[i].reps,
                    date |-> calcRun.input.workouts[w].start_time] :
                      i \in {i \in 1..Len(entry.sets) :
                               /\ entry.sets[i].type # "warmup"
                               /\ entry.sets[i].weight_kg # 0
                               /\ entry.sets[i].reps # 0}} :
                  entry \in {calcRun.input.workouts[w].exercises[e] :
                      e \in {e \in 1..Len(calcRun.input.workouts[w].exercises) :
                        calcRun.input.workouts[w].exercises[e].exercise_template_id = id}}} :
           w \in InRange}

\* The summary entries of the latest call
Summaries == {calcRun.output.value[k] : k \in 1..Len(calcRun.output.value)}

\* C16: the frequency reported for an exercise is the number of workouts in
\* the date range that hold at least one entry of it; several entries in
\* one workout add 1.
C16_FrequencyCountsWorkouts ==
    Summarised => \A x \in Summaries : x.frequency = Cardinality(WorkoutsWith(x.id))

\* C16 witness: summaries were built from two workouts, one of them with
\* two entries of exercise X, and X has frequency 2.
C16_Witness ==
    /\ Summarised
    /\ Len(calcRun.input.workouts) = 2
    /\ \E w \in InRange : Len(SelectSeq(calcRun.input.workouts[w].exercises,
                               LAMBDA ex : ex.exercise_template_id = "X")) = 2
    /\ \E x \in Summaries : x.id = "X" /\ x.frequency = 2

\* C17: for every summarised exercise with a qualifying non-warm-up set,
\* actual1RM is the heaviest weight over all those sets, whatever their rep
\* count, with the date of a workout in which that weight was lifted; and
\* every template that passes the name filter and has such a set is
\* summarised.
C17_ActualIsHeaviestWeight ==
    Summarised =>
        /\ \A x \in Summaries :
              QualifyingSets(x.id) # {} =>
                  /\ x.actual1RM # Null
                  /\ \A q \in QualifyingSets(x.id) : RatLeq(Whole(q.weight), x.actual1RM.weightKg)
                  /\ \E q \in QualifyingSets(x.id) :
                        /\ Whole(q.weight) = x.actual1RM.weightKg
                        /\ q.date = x.actual1RM.date
        /\ \A t \in NamedTemplates :
              QualifyingSets(calcRun.input.templates[t].id) # {} =>
                  \E x \in Summaries : x.id = calcRun.input.templates[t].id

\* C17 witness: exercise X was lifted at 90 kg for one repetition and at
\* 110 kg for three, and its actual1RM is 110 kg.
C17_Witness ==
    /\ Summarised
    /\ \E q \in QualifyingSets("X") : q.reps = 1 /\ q.weight = 90
    /\ \E x \in Summaries : x.id = "X" /\ x.actual1RM # Null
                            /\ x.actual1RM.weightKg = Whole(110)

\* The valid default-formula estimates of the exercise: one per qualifying
\* set whose estimate is not null (the estimate grows with the weight, so
\* the largest of them comes from a rep/weight record)
ValidEstimates(id) ==
    {[value |-> calculateEstimated1RM(Whole(q.weight), Whole(q.reps), "brzycki",
                                      DefaultMaxAllowedReps),
      date |-> q.date] : q \in QualifyingSets(id)}
        \ {[value |-> Null, date |-> q.date] : q \in QualifyingSets(id)}

BestEstimates(id) ==
    {b \in ValidEstimates(id) : \A o \in ValidEstimates(id) : RatLeq(o.value, b.value)}

\* C18 as stated: estimated1RM is exactly the largest valid default-formula
\* estimate, dated by the record that produced it, and is absent when no
\* record has a valid estimate.
C18_EstimatedIsMaximum ==
    Summarised => \A x \in Summaries :
        IF ValidEstimates(x.id) = {} THEN x.estimated1RM = Null
        ELSE /\ x.estimated1RM # Null
             /\ \E b \in BestEstimates(x.id) :
                   /\ x.estimated1RM.weightKg = b.value
                   /\ x.estimated1RM.date = b.date

\* C18 amended: estimated1RM is the largest valid default-formula estimate
\* rounded to one decimal place, dated by the record that produced it;
\* records with an invalid estimate are skipped, and when no record has a
\* valid estimate there is no estimated1RM.
C18_EstimatedIsRoundedMaximum ==
    Summarised => \A x \in Summaries :
        IF ValidEstimates(x.id) = {} THEN x.estimated1RM = Null
        ELSE /\ x.estimated1RM # Null
             /\ \E b \in BestEstimates(x.id) :
                   /\ x.estimated1RM.weightKg = RoundToTenth(b.value)
                   /\ x.estimated1RM.date = b.date

\* C18 witness: exercise X has a set of 110 kg x 3 and a set of 16
\* repetitions, whose estimate is invalid, and its estimated1RM is 116.5 kg.
C18_Witness ==
    /\ Summarised
    /\ \E q \in QualifyingSets("X") : q.reps > DefaultMaxAllowedReps
    /\ \E q \in QualifyingSets("X") : q.reps = 3 /\ q.weight = 110
    /\ \E x \in Summaries : x.id = "X" /\ x.estimated1RM # Null
                            /\ x.estimated1RM.weightKg = Rat(233, 2)

\* The ids of the templates that pass the name filter
NamedIds == {calcRun.input.templates[t].id : t \in NamedTemplates}
UsedIds == {id \in NamedIds : WorkoutsWith(id) # {}}
SummaryIds == {x.id : x \in Summaries}

\* The summary has one entry for each of the ids and no other entry
OneEntryFor(ids) ==
    /\ SummaryIds = ids
    /\ Len(calcRun.output.value) = Cardinality(ids)

\* C19 as stated: without excludeUnused the summary has one entry for every
\* template that passes the name filter, those of frequency 0 included;
\* with excludeUnused it has exactly those whose frequency is above 0.
C19_ExcludeUnusedKeepsUsed ==
    Summarised =>
        IF calcRun.input.excludeUnused THEN OneEntryFor(UsedIds) ELSE OneEntryFor(NamedIds)

\* C19 amended: when at least one workout lies in the date range, the
\* summary has one entry for every template that passes the name filter
\* without excludeUnused, and exactly those of frequency above 0 with it;
\* when no workout lies in the range the summary is empty either way.
C19_ExcludeUnusedKeepsUsedOfSomeWorkout ==
    Summarised =>
        IF InRange = {} THEN calcRun.output.value = <<>>
        ELSE IF calcRun.input.excludeUnused THEN OneEntryFor(UsedIds)
        ELSE OneEntryFor(NamedIds)

\* C19 witness: with excludeUnused, two templates pass the name filter and
\* the summary holds only the one that was trained.
C19_Witness ==
    /\ Summarised
    /\ calcRun.input.excludeUnused
    /\ Cardinality(NamedIds) = 2
    /\ Len(calcRun.output.value) = 1
    /\ \A x \in Summaries : x.frequency > 0

\* C20: a search term that no template title contains gives an empty
\* summary, and no error.
C20_NoMatchIsEmptyNotError ==
    (/\ Summarised
     /\ calcRun.input.searchTerm.given
     /\ calcRun.input.searchTerm.text # <<>>
     /\ NamedTemplates = {})
        => /\ calcRun.output.value = <<>>
           /\ ~calcRun.output.threw

\* C20 witness: templates and workouts in range exist, the search term is
\* in no title, and the summary is empty.
C20_Witness ==
    /\ Summarised
    /\ calcRun.input.searchTerm.given
    /\ calcRun.input.searchTerm.text # <<>>
    /\ NamedTemplates = {}
    /\ calcRun.input.templates # <<>>
    /\ InRange # {}
    /\ calcRun.output.value = <<>>

\* The latest call aggregated the volume per muscle group; its result
VolumeRun == calcRun.op = "calculateVolumeByMuscleGroup"
VolumeEntries == {calcRun.output[k] : k \in 1..Len(calcRun.output)}

\* The entry's template id is among the supplied templates
TemplateKnown(entry) ==
    \E t \in 1..Len(calcRun.input.templates) :
        calcRun.input.templates[t].id = entry.exercise_template_id

\* All sets, in order, of the entries whose template has the muscle group
\* as its primary one
MuscleSets(muscle) ==
    Flatten([w \in 1..Len(calcRun.input.workouts) |->
        Flatten([e \in 1..Len(calcRun.input.workouts[w].exercises) |->
            IF \E t \in 1..Len(calcRun.input.templates) :
                  /\ calcRun.input.templates[t].id =
                         calcRun.input.workouts[w].exercises[e].exercise_template_id
                  /\ calcRun.input.templates[t].primary_muscle_group = muscle
            THEN calcRun.input.workouts[w].exercises[e].sets
            ELSE <<>>])])

\* The exact sum of weight x reps over the sets that have both
RECURSIVE ExactVolume(_)
ExactVolume(sets) ==
    IF sets = <<>> THEN Whole(0)
    ELSE LET x == Head(sets)
         IN  IF x.weight_kg = Null \/ x.weight_kg = Whole(0) \/ x.reps = 0
             THEN ExactVolume(Tail(sets))
             ELSE RatAdd(RatMul(x.weight_kg, Whole(x.reps)), ExactVolume(Tail(sets)))

VolumeDescending ==
    \A i \in 1..(Len(calcRun.output) - 1) :
        calcRun.output[i].volume >= calcRun.output[i + 1].volume

\* C21 as stated: every reported volume is the exact sum of weight x reps
\* over the contributing sets of the muscle group, and the entries are in
\* descending order of volume.
C21_VolumeIsExactSum ==
    VolumeRun =>
        /\ \A x \in VolumeEntries : Whole(x.volume) = ExactVolume(MuscleSets(x.muscleGroup))
        /\ VolumeDescending

\* C21 amended: every reported volume is the sum of weight x reps over the
\* contributing sets of the muscle group, rounded to the nearest whole
\* number (halves upwards), and the entries are in descending order of
\* volume.
C21_VolumeIsRoundedSum ==
    VolumeRun =>
        /\ \A x \in VolumeEntries :
              x.volume = RoundDiv(ExactVolume(MuscleSets(x.muscleGroup)).n,
                                  ExactVolume(MuscleSets(x.muscleGroup)).d)
        /\ VolumeDescending

\* C21 witness: the first exercise met belongs to the chest, the quadriceps
\* have the larger volume and come first, and their exact sum is not whole.
C21_Witness ==
    /\ VolumeRun
    /\ Len(calcRun.output) = 2
    /\ calcRun.input.workouts[1].exercises[1].exercise_template_id = "Y"
    /\ calcRun.output[1].muscleGroup = "quadriceps"
    /\ calcRun.output[1].volume > calcRun.output[2].volume
    /\ ExactVolume(MuscleSets("quadriceps")).d = 2

\* The workouts without the entries whose template id is unknown
WithoutUnresolved(ws) ==
    [w \in 1..Len(ws) |->
        [ws[w] EXCEPT !.exercises = SelectSeq(ws[w].exercises, TemplateKnown)]]

\* C22: an entry whose template id is not among the templates does not make
\* the aggregation fail; the result is the one the same workouts give
\* without that entry, and every reported muscle group is the primary group
\* of a supplied template.
C22_UnknownTemplateIsSkipped ==
    VolumeRun =>
        /\ calcRun.output = calculateVolumeByMuscleGroup(WithoutUnresolved(calcRun.input.workouts),
                                                        calcRun.input.templates)
        /\ \A x \in VolumeEntries :
              \E t \in 1..Len(calcRun.input.templates) :
                  calcRun.input.templates[t].primary_muscle_group = x.muscleGroup

\* C22 witness: templates are supplied, an entry with sets has an id that is
\* not among them, and the aggregation returned a result for another
\* exercise.
C22_Witness ==
    /\ VolumeRun
    /\ calcRun.input.templates # <<>>
    /\ \E w \in 1..Len(calcRun.input.workouts) :
          \E e \in 1..Len(calcRun.input.workouts[w].exercises) :
              /\ ~TemplateKnown(calcRun.input.workouts[w].exercises[e])
              /\ calcRun.input.workouts[w].exercises[e].sets # <<>>
    /\ calcRun.output # <<>>

\* C23: for every reported muscle group the set count is the number of all
\* its sets, with or without weight and reps, and the volume comes only
\* from the sets that have both.
C23_EverySetCounted ==
    VolumeRun =>
        \A x \in VolumeEntries :
            /\ x.sets = Len(MuscleSets(x.muscleGroup))
            /\ x.volume = RoundDiv(ExactVolume(MuscleSets(x.muscleGroup)).n,
                                   ExactVolume(MuscleSets(x.muscleGroup)).d)

\* The latest tool call asked for workouts; the positions, among the
\* workouts the upstream holds, of those within the requested range
GotWorkouts == toolRun # NoRun /\ toolRun.tool = "get-workouts"

WorkoutsInRange ==
    {k \in 1..Len(toolRun.upstream.workouts.items) :
        /\ toolRun.params.startDate = 0
           \/ toolRun.upstream.workouts.items[k].start_time >= toolRun.params.startDate
        /\ toolRun.params.endDate = 0
           \/ toolRun.upstream.workouts.items[k].start_time <= toolRun.params.endDate}

\* The k-th item of a list of dated items carries the k-th most recent of
\* the dates in the set
MostRecentFirst(dates, k, date) ==
    /\ Cardinality({w \in DOMAIN dates : dates[w] > date}) < k
    /\ Cardinality({w \in DOMAIN dates : dates[w] >= date}) >= k

\* C24: get-workouts returns min(limit, totalWorkouts) workouts, where
\* totalWorkouts counts the workouts whose start_time is within the
\* inclusive range; they are the most recent of these, most recent first.
C24_MostRecentWorkoutsUpToLimit ==
    GotWorkouts =>
        LET data == toolRun.response.data
            dates == [w \in WorkoutsInRange |-> toolRun.upstream.workouts.items[w].start_time]
        IN  /\ ~toolRun.response.isError
            /\ data.totalWorkouts = Cardinality(WorkoutsInRange)
            /\ data.returnedWorkouts = Min(toolRun.params.limit, data.totalWorkouts)
            /\ Len(data.workouts) = data.returnedWorkouts
            /\ \A k \in 1..Len(data.workouts) :
                  MostRecentFirst(dates, k, data.workouts[k].date)

\* C24 witness: the upstream holds an older workout before a newer one,
\* both in range, the limit is 1 and the newer one is returned.
C24_Witness ==
    /\ GotWorkouts
    /\ toolRun.params.limit = 1
    /\ Cardinality(WorkoutsInRange) = 2
    /\ toolRun.upstream.workouts.items[1].start_time
           < toolRun.upstream.workouts.items[2].start_time
    /\ Len(toolRun.response.data.workouts) = 1
    /\ toolRun.response.data.workouts[1].date = toolRun.upstream.workouts.items[2].start_time

\* The latest tool call asked for the progress of exercises
GotProgress ==
    /\ toolRun # NoRun
    /\ toolRun.tool = "get-exercise-progress-by-ids"
    /\ ~toolRun.response.isError

\* The workouts in range that hold the exercise
SessionsOf(id) ==
    {w \in WorkoutsInRange :
        \E e \in 1..Len(toolRun.upstream.workouts.items[w].exercises) :
            toolRun.upstream.workouts.items[w].exercises[e].exercise_template_id = id}

\* C25: for each requested exercise the sessions returned are the
\* min(limit, n) most recent of its n sessions, most recent first.
C25_MostRecentSessionsUpToLimit ==
    GotProgress =>
        \A p \in 1..Len(toolRun.response.data.exerciseProgress) :
            LET x == toolRun.response.data.exerciseProgress[p]
                dates == [w \in SessionsOf(x.exercise.id) |->
                             toolRun.upstream.workouts.items[w].start_time]
            IN  /\ Len(x.sessions) = Min(toolRun.params.limit,
                                         Cardinality(SessionsOf(x.exercise.id)))
                /\ \A k \in 1..Len(x.sessions) :
                      MostRecentFirst(dates, k, x.sessions[k].date)

\* C25 witness: exercise X has an older session fetched before a newer one,
\* the limit is 1 and the one session returned is the newer.
C25_Witness ==
    /\ GotProgress
    /\ toolRun.params.limit = 1
    /\ SessionsOf("X") = {1, 2}
    /\ toolRun.upstream.workouts.items[1].start_time
           < toolRun.upstream.workouts.items[2].start_time
    /\ \E p \in 1..Len(toolRun.response.data.exerciseProgress) :
          /\ toolRun.response.data.exerciseProgress[p].exercise.id = "X"
          /\ Len(toolRun.response.data.exerciseProgress[p].sessions) = 1
          /\ toolRun.response.data.exerciseProgress[p].sessions[1].date
                 = toolRun.upstream.workouts.items[2].start_time

\* The latest call computed the progress of one exercise
ProgressRun == calcRun.op = "processExerciseProgress"

\* The rep-count to weight entries of a record table
RepWeightEntries(table) == {<<table[k].reps, table[k].weight_kg>> : k \in 1..Len(table)}

\* C29: for the same exercise and workouts, the personal records of
\* processExerciseProgress hold the same rep-count to weight entries as the
\* weight-by-rep table getExercises builds for the exercise.
C29_RecordTablesAgree ==
    ProgressRun =>
        RepWeightEntries(calcRun.output.personalRecords)
            = RepWeightEntries(ExerciseRecords(calcRun.input.workouts,
                                               calcRun.input.templates[1].id))

\* C30: the personal records do not depend on limit: every limit gives the
\* table computed from all sessions of the exercise.
C30_RecordsIndependentOfLimit ==
    ProgressRun =>
        /\ calcRun.output.personalRecords =
               calculateRecordsByReps(analyzeProgressForExercise(calcRun.input.templates[1].id,
                                                                 calcRun.input.workouts))
        /\ \A other \in Limits :
              processExerciseProgress(calcRun.input.templates[1], calcRun.input.workouts,
                                      other).personalRecords
                  = calcRun.output.personalRecords

\* C30 witness: with limit 0 no session is returned and the record table
\* is not empty.
C30_Witness ==
    /\ ProgressRun
    /\ calcRun.input.limit = 0
    /\ calcRun.output.sessions = <<>>
    /\ calcRun.output.personalRecords # <<>>

C26_FetchedWorkoutsUnchanged ==
    calcRun.op \in {"getExercises", "calculateVolumeByMuscleGroup", "processExerciseProgress"}
        => calcRun.fetchedAfter = calcRun.input.workouts

\* C26 witness: the workouts were fetched oldest first, the exercise
\* summaries were built from them most recent first, and the fetched list
\* is still oldest first.
C26_Witness ==
    /\ Summarised
    /\ Len(calcRun.input.workouts) = 2
    /\ calcRun.input.workouts[1].start_time < calcRun.input.workouts[2].start_time
    /\ calcRun.input.startDate = 0
    /\ calcRun.input.endDate = 0
    /\ calcRun.fetchedAfter[1].start_time < calcRun.fetchedAfter[2].start_time
    /\ calcRun.output.value # <<>>

----------------------------------------------------------------------------
(* main(): the cache warm-up and the transport. One revision of main       *)
(* awaits populateCache() before it connects, another calls it without     *)
(* await.                                                                  *)

WarmupInFlight == \E r \in WarmupFetches : server.warmup[r] = "inflight"
WarmupComplete == \A r \in WarmupFetches : server.warmup[r] \in {"fetched", "failed"}

\* hevyService.populateCache(): Promise.all of the three fetchAll calls
MainPopulateCache ==
    /\ \A r \in WarmupFetches : server.warmup[r] = "idle"
    /\ server' = [server EXCEPT !.warmup = [r \in WarmupFetches |-> "inflight"]]
    /\ UNCHANGED <<fetchVars, lastCall, recVars, toolRun, calcVars>>

\* One fetchAll of the warm-up settles: with the collection, or, a request
\* having failed, with the [] of its catch block
WarmupFetchSettles(r, outcome) ==
    /\ server.warmup[r] = "inflight"
    /\ server' = [server EXCEPT !.warmup[r] = outcome]
    /\ UNCHANGED <<fetchVars, lastCall, recVars, toolRun, calcVars>>

\* await server.connect(transport): reached once populateCache() was called,
\* and, where main awaits it, once its promise settled
MainConnect ==
    /\ ~server.connected
    /\ \A r \in WarmupFetches : server.warmup[r] # "idle"
    /\ server.awaits => WarmupComplete
    /\ server' = [server EXCEPT !.connected = TRUE]
    /\ UNCHANGED <<fetchVars, lastCall, recVars, toolRun, calcVars>>

\* The connected transport delivers a tool call and the handler serves it
ServeToolCall ==
    /\ server.connected
    /\ server.served < MaxServed
    /\ server' = [server EXCEPT !.served = @ + 1,
                                !.servedDuringWarmup = @ \/ WarmupInFlight]
    /\ UNCHANGED <<fetchVars, lastCall, recVars, toolRun, calcVars>>

InitStartup ==
    /\ resource = ""
    /\ srvPageCount = 0
    /\ srvPages = [p \in 1..MaxPages |-> <<>>]
    /\ pc = "idle"
    /\ httpLog = <<>>
    /\ httpState = <<>>
    /\ completed = <<>>
    /\ firstPageResponse = Pending
    /\ pagePromises = <<>>
    /\ result = NoResult
    /\ lastCall = NoCall
    /\ workouts = <<>>
    /\ recPc = "off"
    /\ progress = <<>>
    /\ recordsByReps = <<>>
    /\ personalRecords = <<>>
    /\ curDate = 0
    /\ seen = {}
    /\ lastSet = NoSet
    /\ toolRun = NoRun
    /\ server \in {[NoServer EXCEPT !.awaits = a] : a \in BOOLEAN}
    /\ calcRun = NoCalc

NextStartup ==
    \/ MainPopulateCache
    \/ \E r \in WarmupFetches, outcome \in {"fetched", "failed"} : WarmupFetchSettles(r, outcome)
    \/ MainConnect
    \/ ServeToolCall

SpecStartup == InitStartup /\ [][NextStartup]_vars

\* C27: the transport is connected only once the cache warm-up has
\* completed, and no tool call is served while the warm-up is in flight.
C27_ConnectsAfterWarmup ==
    /\ server.connected => WarmupComplete
    /\ ~server.servedDuringWarmup

====
